---------------------------- MODULE Spec2Model ----------------------------
(***************************************************************************)
(* A model of nlp/CorpusUtils.py: the vocabulary builder (build_vocab),    *)
(* the Huffman code builder (_create_binary_tree) and the phrase sampler   *)
(* (PhraseSampler with fast_pair_sample and fast_seq_sample).              *)
(*                                                                         *)
(* Each subsystem has its own specification over one set of variables:     *)
(*   SpecVocab       build_vocab, one step per scanned word / visited      *)
(*                   entry                                                 *)
(*   SpecHuff        _create_binary_tree, one step per heap merge / stack  *)
(*                   pop; SpecHuffScaled with the sentinel scaled down     *)
(*   SpecSample      PhraseSampler.sample_pairs and sample_ngrams          *)
(*   SpecTable       _make_table and PhraseSampler._make_table             *)
(*   SpecBuild       build_vocab with its tail (lines 127-186)             *)
(*   SpecCalls       sequences of sampler and NegSampler calls             *)
(*   SpecGroups      the sample groups of the two samplers                 *)
(*   SpecPairsFair   sample_pairs under fair random draws                  *)
(* The variables of the other subsystems keep their initial value.         *)
(***************************************************************************)
EXTENDS Integers, Sequences, FiniteSets, TLC

(***************************************************************************)
(* Bounds of the model.                                                    *)
(***************************************************************************)
MaxSentences == 2
MaxTokens == 5
MaxMinCount == 3
MaxVocab == 4        \* vocabulary sizes of the Huffman build
MaxCount == 2        \* word counts of the Huffman build

MaxPhraseKeyArg == 2 \* the max_phrase_key argument of PhraseSampler
MaxSamples == 2      \* the sample_count argument of the samplers
MaxGramN == 5        \* the gram_n argument of sample_ngrams
TableSize == 6       \* table_size of PhraseSampler._make_table, scaled down
MaxOverrun == 1      \* reads past the end of rand_pool that are followed
MaxGarbage == 1      \* the values such a read may yield: 0..MaxGarbage

MaxItems == 3        \* vocabulary sizes / phrase counts of the table sweep
MaxItem == 3         \* word counts / phrase lengths of the table sweep
FloatRes == 12       \* a float operation is off by at most 1 / FloatRes:
                     \* the resolution of float64, scaled down like TableSize
TextbookTableSize == 20

MaxNegRows == 2      \* the sample_count argument of NegSampler.sample
MaxNegCols == 2      \* the neg_count argument of NegSampler.sample
MaxNegCount == 2     \* the neg_count argument of NegSampler
MaxGroupCount == 25  \* sample counts the group size is computed for

MAX_HSM_KEY == 12345678

\* MAX_HSM_KEY scaled down to the vocabulary sizes of the model: the root
\* key of MaxVocab words is MaxVocab - 2
ScaledHsmKey == 1

UNK == "*UNK*"
Words == {"a", "b", "c", UNK}

VARIABLES
  \* ---- build_vocab
  vpc,              \* position in build_vocab: "scan", "assign", "built"
  min_count,        \* the min_count argument
  sentence_no,      \* line 78 / 81
  total_words,      \* line 80
  raw_vocab,        \* line 79: word -> Vocab record
  visited,          \* the words iteritems(raw_vocab) has yielded so far (line 108)
  words_to_vocabs,  \* line 105
  words_to_keys,    \* line 105
  keys_to_words,    \* line 105
  idx,              \* line 106
  unk_count,        \* line 107
  corpus,           \* the tokens read from `sentences` so far, as a multiset
  \* ---- _create_binary_tree
  hpc,              \* position: "start", "merge", "walk", "fill", "done", "error"
  w2v,              \* the Vocab objects in the order itervalues(w2v) yields them
  nodes,            \* the Vocab objects of the tree, named by their index
  heap,             \* line 240: the heap list, as node indices
  mi,               \* line 242: the loop variable i
  stack,            \* line 250
  key_dict,         \* line 247
  sign_dict,        \* line 248
  hsm_tree,         \* lines 280-283: the returned dict
  max_hsm_key,      \* the module global MAX_HSM_KEY as line 273 reads it
  \* ---- PhraseSampler
  phrase_list,      \* self.phrase_list: the phrases, each a sequence of keys
  max_window,       \* self.max_window
  max_phrase_key,   \* self.max_phrase_key
  phrase_table,     \* self.phrase_table (self.pt_size is its length)
  spc,              \* position in sample_pairs / sample_ngrams
  sample_count,     \* the sample_count argument
  gram_n,           \* the gram_n argument of sample_ngrams
  pad_key,          \* the pad_key argument of sample_ngrams
  repeats,          \* lines 398-400 / 423-425
  gi,               \* the loop variable i of lines 401 / 426
  r,                \* the loop variable r of lines 308 / 332
  ri,               \* ri[0]: the next unread position of rand_pool
  anc_keys,         \* line 389
  pos_keys,         \* line 390
  phrase_keys,      \* line 391 / 415
  key_seqs,         \* line 414
  a_idx,            \* line 310
  red_win,          \* line 312: the window radius
  c_min,            \* lines 314-316
  c_span,           \* line 320
  c_idx,            \* lines 321-324
  positions,        \* per output slot, the positions the sample was read at
  result,           \* the list the call returned
  \* ---- build_vocab, lines 127-186
  down_sample,      \* the down_sample argument, as a fraction
  compute_hs_tree,  \* the compute_hs_tree argument
  compute_ns_table, \* the compute_ns_table argument
  \* ---- _make_table and PhraseSampler._make_table
  tpc,              \* position: "start", "sweep", "done", "error"
  t_kind,           \* "vocab": _make_table, "phrase": PhraseSampler._make_table
  t_items,          \* per index, the word's count (resp. the phrase's length)
  t_size,           \* the table_size argument
  tidx,             \* lines 221 / 378: the loop variable
  widx,             \* lines 218 / 376: the cursor
  d1,               \* lines 220 / 377: the accumulated threshold
  table,            \* lines 213 / 375: the entries written so far
  t_exact,          \* no operation on d1 has been rounded so far
  lookups,          \* the cursor values used to look a weight up so far
  \* ---- NegSampler
  neg_table,        \* self.neg_table (self.neg_table_size is its length)
  neg_count,        \* self.neg_count
  npc,              \* position in sample: "idle", "columns", "returned", "error"
  neg_n,            \* the sample_count argument of sample
  neg_k,            \* the neg_count argument of sample
  neg_cols,         \* the local neg_count after lines 448-449
  ni,               \* line 452: the loop variable i
  neg_keys,         \* line 450: the matrix, as a sequence of rows
  neg_result        \* the matrix the call returned, with its shape

vocabVars == <<vpc, min_count, sentence_no, total_words, raw_vocab, visited,
               words_to_vocabs, words_to_keys, keys_to_words, idx, unk_count,
               corpus>>

huffVars == <<hpc, w2v, nodes, heap, mi, stack, key_dict, sign_dict, hsm_tree,
              max_hsm_key>>

sampVars == <<phrase_list, max_window, max_phrase_key, phrase_table, spc,
              sample_count, gram_n, pad_key, repeats, gi, r, ri, anc_keys,
              pos_keys, phrase_keys, key_seqs, a_idx, red_win, c_min, c_span, c_idx,
              positions, result>>

tailVars == <<down_sample, compute_hs_tree, compute_ns_table>>

tableVars == <<tpc, t_kind, t_items, t_size, tidx, widx, d1, table, t_exact,
               lookups>>

negVars == <<neg_table, neg_count, npc, neg_n, neg_k, neg_cols, ni, neg_keys,
             neg_result>>

vars == <<vocabVars, huffVars, sampVars, tailVars, tableVars, negVars>>

(***************************************************************************)
(* Helpers.                                                                *)
(***************************************************************************)
EmptyMap == <<>>

\* d[k] = v as a dict store (insert or overwrite)
Put(d, k, v) == (k :> v) @@ d

RECURSIVE SumOver(_, _)
\* the sum of f[x].count over x in S
SumOver(f, S) ==
  IF S = {} THEN 0
  ELSE LET x == CHOOSE y \in S : TRUE
       IN f[x].count + SumOver(f, S \ {x})

(***************************************************************************)
(* build_vocab, lines 77-126.                                              *)
(***************************************************************************)

\* Vocab(count=1), line 90: an object with a count and no index attribute
NewVocab(c) == [count |-> c]

\* line 109 with the threshold off by one (faulty variant)
KeepsWord_OffByOne(word, v) == (v.count >= min_count - 1) \/ (word = UNK)

\* line 109: the word meets the frequency threshold or is *UNK*
KeepsWord(word, v) == (v.count >= min_count) \/ (word = UNK)

\* line 118 without the accumulation (faulty variant)
CollectUnk_Dropped(v) == unk_count

\* line 118: unk_count += v.count
CollectUnk(v) == unk_count + v.count

\* line 115 not executed (faulty variant)
NextIdx_Stuck(i) == i

\* line 115: idx += 1
NextIdx(i) == i + 1

\* line 114 keyed by the next index (faulty variant)
KeyStore_Shifted(k2w, i, word) == Put(k2w, i + 1, word)

\* line 114 / 126: keys_to_words[idx] = word
KeyStore(k2w, i, word) == Put(k2w, i, word)

InitVocabVars ==
  /\ vpc = "scan"
  /\ min_count \in 0..MaxMinCount
  /\ sentence_no = -1
  /\ total_words = 0
  /\ raw_vocab = EmptyMap
  /\ visited = {}
  /\ words_to_vocabs = EmptyMap
  /\ words_to_keys = EmptyMap
  /\ keys_to_words = EmptyMap
  /\ idx = 0
  /\ unk_count = 0
  /\ corpus = [w \in Words |-> 0]

\* line 81: enumerate(sentences) yields the next sentence
NextSentence ==
  /\ vpc = "scan"
  /\ sentence_no + 1 < MaxSentences
  /\ sentence_no' = sentence_no + 1
  /\ UNCHANGED <<vpc, min_count, total_words, raw_vocab, visited,
                 words_to_vocabs, words_to_keys, keys_to_words, idx,
                 unk_count, corpus>>

\* lines 85-90: one word of the current sentence
ScanWord(word) ==
  /\ vpc = "scan"
  /\ sentence_no >= 0
  /\ total_words < MaxTokens
  /\ total_words' = total_words + 1
  /\ raw_vocab' = IF word \in DOMAIN raw_vocab
                    THEN [raw_vocab EXCEPT ![word].count = @ + 1]
                    ELSE Put(raw_vocab, word, NewVocab(1))
  /\ corpus' = [corpus EXCEPT ![word] = @ + 1]
  /\ UNCHANGED <<vpc, min_count, sentence_no, visited, words_to_vocabs,
                 words_to_keys, keys_to_words, idx, unk_count>>

\* the sentence stream ends; lines 105-107
EndScan ==
  /\ vpc = "scan"
  /\ vpc' = "assign"
  /\ words_to_vocabs' = EmptyMap
  /\ words_to_keys' = EmptyMap
  /\ keys_to_words' = EmptyMap
  /\ idx' = 0
  /\ unk_count' = 0
  /\ visited' = {}
  /\ UNCHANGED <<min_count, sentence_no, total_words, raw_vocab, corpus>>

\* lines 108-118: one iteration of the loop over raw_vocab.  The dict yields
\* its entries in an order the code does not control: any unvisited word.
AssignWord(word) ==
  /\ vpc = "assign"
  /\ word \in DOMAIN raw_vocab \ visited
  /\ visited' = visited \cup {word}
  /\ LET v == raw_vocab[word]
     IN IF KeepsWord(word, v)
          THEN LET v2 == [count |-> v.count, index |-> idx]
               IN /\ raw_vocab' = [raw_vocab EXCEPT ![word] = v2]
                  /\ words_to_vocabs' = Put(words_to_vocabs, word, v2)
                  /\ words_to_keys' = Put(words_to_keys, word, idx)
                  /\ keys_to_words' = KeyStore(keys_to_words, idx, word)
                  /\ idx' = NextIdx(idx)
                  /\ UNCHANGED unk_count
          ELSE /\ unk_count' = CollectUnk(v)
               /\ UNCHANGED <<raw_vocab, words_to_vocabs, words_to_keys,
                              keys_to_words, idx>>
  /\ UNCHANGED <<vpc, min_count, sentence_no, total_words, corpus>>

\* lines 119-126: fold the dropped counts into *UNK*.  words_to_vocabs[UNK]
\* and raw_vocab[UNK] are the same object, so line 121 changes both.
MergeUnk ==
  /\ vpc = "assign"
  /\ visited = DOMAIN raw_vocab
  /\ vpc' = "built"
  /\ IF UNK \in DOMAIN raw_vocab
       THEN /\ words_to_vocabs' =
                 [words_to_vocabs EXCEPT ![UNK].count = @ + unk_count]
            /\ raw_vocab' = [raw_vocab EXCEPT ![UNK].count = @ + unk_count]
            /\ UNCHANGED <<words_to_keys, keys_to_words>>
       ELSE /\ words_to_vocabs' =
                 Put(words_to_vocabs, UNK, [count |-> unk_count, index |-> idx])
            /\ words_to_keys' = Put(words_to_keys, UNK, idx)
            /\ keys_to_words' = KeyStore(keys_to_words, idx, UNK)
            /\ UNCHANGED raw_vocab
  /\ UNCHANGED <<min_count, sentence_no, total_words, visited, idx, unk_count,
                 corpus>>

NextVocab ==
  \/ NextSentence
     /\ UNCHANGED <<huffVars, sampVars, tailVars, tableVars, negVars>>
  \/ \E word \in Words :
        ScanWord(word)
        /\ UNCHANGED <<huffVars, sampVars, tailVars, tableVars, negVars>>
  \/ EndScan
     /\ UNCHANGED <<huffVars, sampVars, tailVars, tableVars, negVars>>
  \/ \E word \in Words :
        AssignWord(word)
        /\ UNCHANGED <<huffVars, sampVars, tailVars, tableVars, negVars>>
  \/ MergeUnk
     /\ UNCHANGED <<huffVars, sampVars, tailVars, tableVars, negVars>>

(***************************************************************************)
(* heapq, as _create_binary_tree uses it (lines 241-244).  Positions are   *)
(* Python's, from 0; a heap is a sequence of node indices and nd gives the *)
(* Vocab object of each index.                                             *)
(***************************************************************************)
At(h, pos) == h[pos + 1]
Store(h, pos, x) == [h EXCEPT ![pos + 1] = x]

\* Vocab.__lt__ reversed: a max-heap (faulty variant)
VocabLt_Reversed(nd, a, b) == nd[a].count > nd[b].count

\* Vocab.__lt__, lines 64-65
VocabLt(nd, a, b) == nd[a].count < nd[b].count

RECURSIVE SiftDownLoop(_, _, _, _, _)
SiftDownLoop(nd, h, startpos, pos, newitem) ==
  IF pos > startpos
    THEN LET parentpos == (pos - 1) \div 2
             parent == At(h, parentpos)
         IN IF VocabLt(nd, newitem, parent)
              THEN SiftDownLoop(nd, Store(h, pos, parent), startpos, parentpos,
                                newitem)
              ELSE Store(h, pos, newitem)
    ELSE Store(h, pos, newitem)

\* heapq._siftdown(heap, startpos, pos)
SiftDown(nd, h, startpos, pos) == SiftDownLoop(nd, h, startpos, pos, At(h, pos))

RECURSIVE SiftUpLoop(_, _, _, _, _)
SiftUpLoop(nd, h, startpos, pos, newitem) ==
  LET endpos == Len(h)
      childpos == 2 * pos + 1
      rightpos == childpos + 1
      c == IF rightpos < endpos
              /\ ~VocabLt(nd, At(h, childpos), At(h, rightpos))
             THEN rightpos ELSE childpos
  IN IF childpos < endpos
       THEN SiftUpLoop(nd, Store(h, pos, At(h, c)), startpos, c, newitem)
       ELSE SiftDown(nd, Store(h, pos, newitem), startpos, pos)

\* heapq._siftup(heap, pos)
SiftUp(nd, h, pos) == SiftUpLoop(nd, h, pos, pos, At(h, pos))

RECURSIVE HeapifyFrom(_, _, _)
HeapifyFrom(nd, h, pos) ==
  IF pos < 0 THEN h ELSE HeapifyFrom(nd, SiftUp(nd, h, pos), pos - 1)

\* heapq.heapify(x): sift up the positions n/2-1 .. 0
Heapify(nd, h) == HeapifyFrom(nd, h, (Len(h) \div 2) - 1)

\* heapq.heappop(heap): the popped item
PopItem(h) == IF Len(h) = 1 THEN h[1] ELSE At(h, 0)

\* heapq.heappop(heap): the heap that is left
PopRest(nd, h) ==
  LET lastelt == h[Len(h)]
      rest == SubSeq(h, 1, Len(h) - 1)
  IN IF rest = <<>> THEN rest ELSE SiftUp(nd, Store(rest, 0, lastelt), 0)

\* heapq.heappush(heap, item)
Push(nd, h, item) == SiftDown(nd, Append(h, item), 0, Len(h))

(***************************************************************************)
(* _create_binary_tree, lines 231-284.                                     *)
(***************************************************************************)
VocabSize == Len(w2v)

\* a Python list (nd = FALSE) or a numpy array (nd = TRUE) of numbers
PyList(s) == [nd |-> FALSE, v |-> s]
NdArray(s) == [nd |-> TRUE, v |-> s]

\* line 245 with the children's counts not added up (faulty variant)
MergedCount_Min1Only(min1, min2) == nodes[min1].count

\* line 244: count = min1.count + min2.count
MergedCount(min1, min2) == nodes[min1].count + nodes[min2].count

\* line 259 with the node's index as the key (faulty variant)
PathKeys_NodeIndex(keys, node) == NdArray(Append(keys.v, node))

\* line 259: keys + [node.index - len(w2v)] as a uint32 array
PathKeys(keys, node) == NdArray(Append(keys.v, node - VocabSize))

\* lines 260-261: signs + [sign] as a float32 array
PathSigns(signs, sgn) == NdArray(Append(signs.v, sgn))

\* lines 260-261 with +1 for both children (faulty variant)
ChildSigns_Same == <<1, 1>>

\* lines 260-261: -1 for node.left, +1 for node.right
ChildSigns == <<-1, 1>>

\* the orders in which itervalues(w2v) yields the n Vocab objects, as the
\* index at each position.  build_vocab inserts them by increasing index,
\* which is the order a dict keeps; a dict that orders by hash may yield any
\* order, and the model takes the reverse one too.  The heap compares counts
\* only and the counts range over all vectors, so every sequence of counts
\* enters the heap either way.
DictOrders(n) == {[k \in 1..n |-> k - 1], [k \in 1..n |-> n - k]}

\* the vocabularies: indices 0..n-1, counts 0..MaxCount
Vocabularies ==
  UNION {{[k \in 1..n |-> [count |-> c[p[k]], index |-> p[k]]] :
            c \in [0..(n - 1) -> 0..MaxCount], p \in DictOrders(n)} :
         n \in 0..MaxVocab}

TextbookCounts == <<5, 9, 12, 13, 16, 45>>

\* the counts a:5 b:9 c:12 d:13 e:16 f:45, in index order and in reverse
TextbookVocabularies ==
  {[k \in 1..6 |-> [count |-> TextbookCounts[k], index |-> k - 1]],
   [k \in 1..6 |-> [count |-> TextbookCounts[7 - k], index |-> 6 - k]]}

IdleHuffVars ==
  /\ hpc = "idle"
  /\ w2v = <<>>
  /\ nodes = EmptyMap
  /\ heap = <<>>
  /\ mi = 0
  /\ stack = <<>>
  /\ key_dict = EmptyMap
  /\ sign_dict = EmptyMap
  /\ hsm_tree = EmptyMap
  /\ max_hsm_key = MAX_HSM_KEY

InitHuffVars ==
  /\ hpc = "start"
  /\ w2v \in Vocabularies \cup TextbookVocabularies
  /\ nodes = EmptyMap
  /\ heap = <<>>
  /\ mi = 0
  /\ stack = <<>>
  /\ key_dict = EmptyMap
  /\ sign_dict = EmptyMap
  /\ hsm_tree = EmptyMap
  /\ max_hsm_key = MAX_HSM_KEY

\* the build with vocabulary sizes and sentinel scaled down together: the
\* vocabularies of up to MaxVocab words against the sentinel ScaledHsmKey + 1
\* stand for vocabularies of up to MAX_HSM_KEY + 3 words against
\* MAX_HSM_KEY + 1
InitHuffScaledVars ==
  /\ hpc = "start"
  /\ w2v \in Vocabularies
  /\ nodes = EmptyMap
  /\ heap = <<>>
  /\ mi = 0
  /\ stack = <<>>
  /\ key_dict = EmptyMap
  /\ sign_dict = EmptyMap
  /\ hsm_tree = EmptyMap
  /\ max_hsm_key = ScaledHsmKey

\* lines 240-241: heap = list(itervalues(w2v)); heapq.heapify(heap)
BuildHeap ==
  /\ hpc = "start"
  /\ LET nd == [k \in {w2v[p].index : p \in 1..Len(w2v)} |->
                  LET p == CHOOSE q \in 1..Len(w2v) : w2v[q].index = k
                  IN [count |-> w2v[p].count]]
     IN /\ nodes' = nd
        /\ heap' = Heapify(nd, [p \in 1..Len(w2v) |-> w2v[p].index])
  /\ mi' = 0
  /\ hpc' = "merge"
  /\ UNCHANGED <<w2v, stack, key_dict, sign_dict, hsm_tree, max_hsm_key>>

\* lines 242-245: one iteration of the merge loop
MergeStep ==
  /\ hpc = "merge"
  /\ mi < VocabSize - 1
  /\ LET min1 == PopItem(heap)
         h1 == PopRest(nodes, heap)
         min2 == PopItem(h1)
         h2 == PopRest(nodes, h1)
         new == mi + VocabSize
         nd == Put(nodes, new, [count |-> MergedCount(min1, min2),
                                left |-> min1, right |-> min2])
     IN /\ nodes' = nd
        /\ heap' = Push(nd, h2, new)
  /\ mi' = mi + 1
  /\ UNCHANGED <<hpc, w2v, stack, key_dict, sign_dict, hsm_tree, max_hsm_key>>

\* lines 247-250: the loop is over; start the walk from the root
StartWalk ==
  /\ hpc = "merge"
  /\ mi >= VocabSize - 1
  /\ key_dict' = EmptyMap
  /\ sign_dict' = EmptyMap
  /\ stack' = IF heap # <<>>
                THEN <<[node |-> At(heap, 0), signs |-> PyList(<<>>),
                        keys |-> PyList(<<>>)]>>
                ELSE <<>>
  /\ hpc' = "walk"
  /\ UNCHANGED <<w2v, nodes, heap, mi, hsm_tree, max_hsm_key>>

\* lines 251-261: one iteration of the walk
WalkStep ==
  /\ hpc = "walk"
  /\ stack # <<>>
  /\ LET top == stack[Len(stack)]
         rest == SubSeq(stack, 1, Len(stack) - 1)
     IN IF top.node < VocabSize
          THEN /\ key_dict' = Put(key_dict, top.node, top.keys)
               /\ sign_dict' = Put(sign_dict, top.node, top.signs)
               /\ stack' = rest
          ELSE LET keys == PathKeys(top.keys, top.node)
               IN /\ stack' = rest \o
                      <<[node |-> nodes[top.node].left,
                         signs |-> PathSigns(top.signs, ChildSigns[1]),
                         keys |-> keys],
                        [node |-> nodes[top.node].right,
                         signs |-> PathSigns(top.signs, ChildSigns[2]),
                         keys |-> keys]>>
                  /\ UNCHANGED <<key_dict, sign_dict>>
  /\ UNCHANGED <<hpc, w2v, nodes, heap, mi, hsm_tree, max_hsm_key>>

RECURSIVE MaxOf(_)
MaxOf(S) ==
  LET x == CHOOSE y \in S : TRUE
  IN IF S = {x} THEN x
     ELSE LET m == MaxOf(S \ {x}) IN IF x > m THEN x ELSE m

\* line 273: the key of an unused position
PadKey == max_hsm_key + 1

\* lines 277-278 with < for >: max_code_key never leaves 0 (faulty variant)
MaxCodeKey_Less(real) ==
  CHOOSE m \in real \cup {0} : \A x \in real \cup {0} : m <= x

\* lines 266 and 277-278: max_code_key starts at 0 and follows every key
\* of a code that is larger
MaxCodeKey(real) == MaxOf(real \cup {0})

\* line 263: max_code_len
CodeWidth(kd) == MaxOf({Len(kd[k].v) : k \in DOMAIN kd})

\* lines 263-284: the two matrices and max_code_key
Materialize ==
  /\ hpc = "walk"
  /\ stack = <<>>
  /\ IF DOMAIN key_dict # {} /\ (\A k \in DOMAIN key_dict : key_dict[k].nd)
       THEN LET max_code_len == CodeWidth(key_dict)
                max_word_key == MaxOf(DOMAIN key_dict)
                row(k, f, pad) ==
                  [j \in 1..max_code_len |->
                     IF k \in DOMAIN key_dict /\ j <= Len(f[k].v)
                       THEN f[k].v[j]
                       ELSE IF k \in DOMAIN key_dict THEN pad ELSE 0]
                code_keys == [k \in 0..max_word_key |-> row(k, key_dict, PadKey)]
                code_signs == [k \in 0..max_word_key |-> row(k, sign_dict, 0)]
                real == UNION {{key_dict[k].v[j] : j \in 1..Len(key_dict[k].v)} :
                                 k \in DOMAIN key_dict}
            IN /\ hsm_tree' =
                    [keys_to_code_keys |-> code_keys,
                     keys_to_code_signs |-> code_signs,
                     max_code_key |-> MaxCodeKey(real)]
               /\ hpc' = "done"
       ELSE \* .size of a Python list (line 263), or np.max of an empty array
            /\ hsm_tree' = EmptyMap
            /\ hpc' = "error"
  /\ UNCHANGED <<w2v, nodes, heap, mi, stack, key_dict, sign_dict,
                 max_hsm_key>>

NextHuff ==
  \/ BuildHeap
     /\ UNCHANGED <<vocabVars, sampVars, tailVars, tableVars, negVars>>
  \/ MergeStep
     /\ UNCHANGED <<vocabVars, sampVars, tailVars, tableVars, negVars>>
  \/ StartWalk
     /\ UNCHANGED <<vocabVars, sampVars, tailVars, tableVars, negVars>>
  \/ WalkStep
     /\ UNCHANGED <<vocabVars, sampVars, tailVars, tableVars, negVars>>
  \/ Materialize
     /\ UNCHANGED <<vocabVars, sampVars, tailVars, tableVars, negVars>>

IdleVocabVars ==
  /\ vpc = "idle"
  /\ min_count = 0
  /\ sentence_no = -1
  /\ total_words = 0
  /\ raw_vocab = EmptyMap
  /\ visited = {}
  /\ words_to_vocabs = EmptyMap
  /\ words_to_keys = EmptyMap
  /\ keys_to_words = EmptyMap
  /\ idx = 0
  /\ unk_count = 0
  /\ corpus = [w \in Words |-> 0]

(***************************************************************************)
(* PhraseSampler, lines 352-434, with fast_pair_sample (305-327) and       *)
(* fast_seq_sample (329-350).  Positions and keys count from 0 as in the   *)
(* code; a sequence s holds position p at s[p + 1].                        *)
(***************************************************************************)
P0 == <<>>
P1 == <<7>>
P2 == <<1, 2>>
P3 == <<5, 6, 5>>
P5 == <<0, 1, 2, 3, 4>>

\* the phrase lists the sampler is built over
PhraseLists ==
  {<<P5>>, <<P3>>, <<P2, P3>>, <<P2, P2, P3>>, <<P1, P3>>, <<P0, P2>>}

\* the max_window arguments: the smallest one, and one that reaches past
\* both ends of the short phrases
Windows == {1, 2}

\* the pad_key arguments: one that is also a word key of P5, one that is not
PadKeys == {0, 9}

Min(a, b) == IF a < b THEN a ELSE b

RECURSIVE SumLens(_)
\* np.sum(phrase_lens), line 374
SumLens(p_list) ==
  IF p_list = <<>> THEN 0 ELSE Len(Head(p_list)) + SumLens(Tail(p_list))

RECURSIVE TableSweep(_, _, _, _, _, _)
\* lines 378-384 from position tidx on.  d1 is cum / len_sum, so that
\* tidx / table_size > d1 is tidx * len_sum > cum * table_size; with
\* len_sum = 0, d1 is nan and the comparison is false.  In exact arithmetic
\* the cursor advances only while cum < len_sum, that is below the last phrase.
TableSweep(p_list, table_size, ti, wi, cum, tbl) ==
  IF ti >= table_size THEN tbl
  ELSE LET len_sum == SumLens(p_list)
           adv == len_sum # 0 /\ ti * len_sum > cum * table_size
                  /\ wi + 1 < Len(p_list)
           w2 == IF adv THEN wi + 1 ELSE wi
           cum2 == IF adv THEN cum + Len(p_list[w2 + 1]) ELSE cum
       IN TableSweep(p_list, table_size, ti + 1, w2, cum2,
                     Append(tbl, wi))

\* PhraseSampler._make_table, lines 367-385
MakeTable(p_list, table_size) ==
  TableSweep(p_list, table_size, 0, 0, Len(p_list[1]), <<>>)

pt_size == Len(phrase_table)

\* np.zeros((n,), dtype=np.uint32)
Zeros(n) == [j \in 1..n |-> 0]

\* the size of rand_pool, lines 395-396 / 420-421
PoolLen == 10 * sample_count

\* the values rand_pool[k] may hold: npr.randint(0, high=pt_size) inside the
\* pool; past its end the compiled code reads without a bounds check and
\* gets whatever uint32 lies there (or the process dies: see the actions)
Draws(k) == IF k < PoolLen THEN 0..(pt_size - 1) ELSE 0..MaxGarbage

\* the values phrase[p] may yield in the compiled code: the key at p, or
\* anything when p is outside the phrase
ReadSet(phrase, p) ==
  IF p >= 0 /\ p < Len(phrase) THEN {phrase[p + 1]} ELSE 0..MaxGarbage

RECURSIVE Shrink(_, _)
\* lines 399-400 / 424-425: while not (sample_count % repeats == 0): repeats -= 1
Shrink(n, rep) == IF n % rep = 0 THEN rep ELSE Shrink(n, rep - 1)

\* lines 398-400 / 423-425 with a group for every sample (faulty variant)
GroupSize_One(n) == 1

\* lines 398-400 / 423-425
GroupSize(n) == Shrink(n, 5)

\* phrase_keys[i:(i+repeats)] = value, lines 404 / 429
SliceFill(arr, i, rep, value) ==
  [j \in 1..Len(arr) |-> IF j - 1 >= i /\ j - 1 < i + rep THEN value ELSE arr[j]]

\* line 409 / 433 without the cap (faulty variant)
CapKeys_None(keys) == keys

\* line 409 / 433: np.minimum(self.max_phrase_key, phrase_keys)
CapKeys(keys) == [j \in 1..Len(keys) |-> Min(max_phrase_key, keys[j])]

\* line 363: min(len(self.phrase_list), max_phrase_key)
MaxPhraseKey(p_list, arg) == Min(Len(p_list), arg)

\* lines 318-319 clipping to phrase_len (faulty variant)
ClipMax_OffByOne(c_max, phrase_len) ==
  IF c_max >= phrase_len THEN phrase_len ELSE c_max

\* lines 318-319: the window's upper end, clipped to the phrase
ClipMax(c_max, phrase_len) ==
  IF c_max >= phrase_len THEN phrase_len - 1 ELSE c_max

\* line 312 without the + 1: a radius in [0, max_window) (faulty variant)
Radius_FromZero(v) == v % max_window

\* line 312: red_win = (rand_pool[ri[0]] % max_window) + 1
Radius(v) == (v % max_window) + 1

\* lines 315-316 left out: the window may start before the phrase (faulty
\* variant)
ClipMin_None(c) == c

\* lines 315-316: the window's lower end, clipped to the phrase
ClipMin(c) == IF c < 0 THEN 0 ELSE c

\* line 337: stop_idx = (rand % (phrase_len - 1)) + 1, for phrase_len >= 2
StopIdx(v, phrase_len) == (v % (phrase_len - 1)) + 1

\* line 340 without the + 1 (faulty variant)
StartIdx_OffByOne(stop_idx, n) == stop_idx - n

\* line 340: start_idx = stop_idx - gram_n + 1
StartIdx(stop_idx, n) == stop_idx - n + 1

\* lines 397 / 422 reusing the cursor an earlier call left (faulty variant)
FreshCursor_Kept == ri

\* lines 397 / 422: ri = np.asarray([0]), a new cursor for every call
FreshCursor == 0

\* the phrase the current group samples from: self.phrase_list[phrase_keys[i]]
CurPhrase == phrase_list[phrase_keys[gi + 1] + 1]

\* the call frame is over: the caller has the result (or the exception)
CallOver == {"pairs_returned", "ngrams_returned", "error"}

IdleSampVars ==
  /\ phrase_list = <<>>
  /\ max_window = 0
  /\ max_phrase_key = 0
  /\ phrase_table = <<>>
  /\ spc = "none"
  /\ sample_count = 0
  /\ gram_n = 0
  /\ pad_key = 0
  /\ repeats = 0
  /\ gi = 0
  /\ r = 0
  /\ ri = 0
  /\ anc_keys = <<>>
  /\ pos_keys = <<>>
  /\ phrase_keys = <<>>
  /\ key_seqs = <<>>
  /\ a_idx = 0
  /\ red_win = 0
  /\ c_min = 0
  /\ c_span = 0
  /\ c_idx = 0
  /\ positions = <<>>
  /\ result = <<>>

\* PhraseSampler.__init__, lines 358-365
InitSampVars ==
  /\ phrase_list \in PhraseLists
  /\ max_window \in Windows
  /\ \E arg \in 1..MaxPhraseKeyArg :
        max_phrase_key = MaxPhraseKey(phrase_list, arg)
  /\ phrase_table = MakeTable(phrase_list, TableSize)
  /\ spc = "idle"
  /\ sample_count = 0
  /\ gram_n = 0
  /\ pad_key = 0
  /\ repeats = 0
  /\ gi = 0
  /\ r = 0
  /\ ri = 0
  /\ anc_keys = <<>>
  /\ pos_keys = <<>>
  /\ phrase_keys = <<>>
  /\ key_seqs = <<>>
  /\ a_idx = 0
  /\ red_win = 0
  /\ c_min = 0
  /\ c_span = 0
  /\ c_idx = 0
  /\ positions = <<>>
  /\ result = <<>>

samplerFields == <<phrase_list, max_window, max_phrase_key, phrase_table>>

\* sample_pairs(sample_count), lines 389-400
CallSamplePairs(n) ==
  /\ spc = "idle"
  /\ spc' = "pairs_loop"
  /\ sample_count' = n
  /\ anc_keys' = Zeros(n)
  /\ pos_keys' = Zeros(n)
  /\ phrase_keys' = Zeros(n)
  /\ key_seqs' = <<>>
  /\ gram_n' = 0
  /\ pad_key' = 0
  /\ ri' = FreshCursor
  /\ repeats' = GroupSize(n)
  /\ gi' = 0
  /\ r' = 0
  /\ a_idx' = 0
  /\ red_win' = 0
  /\ c_min' = 0
  /\ c_span' = 0
  /\ c_idx' = 0
  /\ positions' = [j \in 1..n |-> <<>>]
  /\ result' = <<>>
  /\ UNCHANGED samplerFields

\* lines 401-405: the phrase of the next group of `repeats` samples;
\* rand_pool[ri[0]] raises IndexError past the end of the pool
PairsGroup ==
  /\ spc = "pairs_loop"
  /\ gi < sample_count
  /\ IF ri >= PoolLen
       THEN /\ spc' = "error"
            /\ UNCHANGED <<ri, phrase_keys, r>>
       ELSE \E pt_idx \in Draws(ri) :
              /\ ri' = ri + 1
              /\ phrase_keys' =
                   SliceFill(phrase_keys, gi, repeats, phrase_table[pt_idx + 1])
              /\ r' = 0
              /\ spc' = "pair_anchor"
  /\ UNCHANGED <<samplerFields, sample_count, gram_n, pad_key, repeats, gi,
                 anc_keys, pos_keys, key_seqs, a_idx, red_win, c_min, c_span, c_idx,
                 positions, result>>

\* fast_pair_sample, lines 309-321: the anchor and the clipped window of
\* sample r; a phrase of length 0 divides by zero
PairAnchor ==
  /\ spc = "pair_anchor"
  /\ ri + 2 <= PoolLen + MaxOverrun
  /\ LET phrase_len == Len(CurPhrase)
     IN IF phrase_len = 0
          THEN /\ spc' = "error"
               /\ UNCHANGED <<ri, a_idx, red_win, c_min, c_span, c_idx>>
          ELSE \/ \E v1 \in Draws(ri), v2 \in Draws(ri + 1) :
                    LET a == v1 % phrase_len
                        rw == Radius(v2)
                        lo == ClipMin(a - rw)
                        hi == ClipMax(a + rw, phrase_len)
                    IN /\ a_idx' = a
                       /\ red_win' = rw
                       /\ c_min' = lo
                       /\ c_span' = hi - lo + 1
                       /\ c_idx' = a
                       /\ ri' = ri + 2
                       /\ spc' = "pair_redraw"
               \/ \* a read past the end of the pool may also fault
                  /\ ri + 1 >= PoolLen
                  /\ spc' = "error"
                  /\ UNCHANGED <<ri, a_idx, red_win, c_min, c_span, c_idx>>
  /\ UNCHANGED <<samplerFields, sample_count, gram_n, pad_key, repeats, gi, r,
                 anc_keys, pos_keys, phrase_keys, key_seqs, positions, result>>

\* line 323 with the remainder modulo c_span - 1: the window's last position
\* is never drawn, and with c_span = 2 only its first one (faulty variant)
ContextDraw_OffByOne(v) == c_min + (v % (IF c_span > 1 THEN c_span - 1 ELSE 1))

\* line 323: c_idx = c_min + (rand_pool[ri[0]] % c_span)
ContextDraw(v) == c_min + (v % c_span)

\* lines 322-324: one iteration of the resampling loop
PairRedraw ==
  /\ spc = "pair_redraw"
  /\ c_idx = a_idx
  /\ ri < PoolLen + MaxOverrun
  /\ \/ /\ \E v \in Draws(ri) : c_idx' = ContextDraw(v)
        /\ ri' = ri + 1
        /\ UNCHANGED spc
     \/ \* a read past the end of the pool may also fault
        /\ ri >= PoolLen
        /\ spc' = "error"
        /\ UNCHANGED <<ri, c_idx>>
  /\ UNCHANGED <<samplerFields, sample_count, gram_n, pad_key, repeats,
                 gi, r, anc_keys, pos_keys, phrase_keys, key_seqs, a_idx, red_win,
                 c_min, c_span, positions, result>>

\* lines 325-326 and the end of the iteration of line 308
PairStore ==
  /\ spc = "pair_redraw"
  /\ c_idx # a_idx
  /\ LET j == gi + r
     IN /\ \E ak \in ReadSet(CurPhrase, a_idx) :
             anc_keys' = [anc_keys EXCEPT ![j + 1] = ak]
        /\ \E pk \in ReadSet(CurPhrase, c_idx) :
             pos_keys' = [pos_keys EXCEPT ![j + 1] = pk]
        /\ positions' = [positions EXCEPT ![j + 1] = <<a_idx, c_idx>>]
  /\ r' = r + 1
  /\ IF r + 1 < repeats
       THEN spc' = "pair_anchor" /\ gi' = gi
       ELSE spc' = "pairs_loop" /\ gi' = gi + repeats
  /\ UNCHANGED <<samplerFields, sample_count, gram_n, pad_key, repeats, ri,
                 phrase_keys, key_seqs, a_idx, red_win, c_min, c_span, c_idx, result>>

\* lines 407-410
ReturnPairs ==
  /\ spc = "pairs_loop"
  /\ gi >= sample_count
  /\ result' = [anc_keys |-> anc_keys, pos_keys |-> pos_keys,
                phrase_keys |-> CapKeys(phrase_keys)]
  /\ spc' = "pairs_returned"
  /\ UNCHANGED <<samplerFields, sample_count, gram_n, pad_key, repeats, gi, r,
                 ri, anc_keys, pos_keys, phrase_keys, key_seqs, a_idx, red_win, c_min,
                 c_span, c_idx, positions>>

\* sample_ngrams(sample_count, gram_n, pad_key), lines 414-425
CallSampleNgrams(n, g, pk) ==
  /\ spc = "idle"
  /\ spc' = "ngrams_loop"
  /\ sample_count' = n
  /\ gram_n' = g
  /\ pad_key' = pk
  /\ key_seqs' = [j \in 1..n |-> Zeros(g)]
  /\ phrase_keys' = Zeros(n)
  /\ anc_keys' = <<>>
  /\ pos_keys' = <<>>
  /\ ri' = FreshCursor
  /\ repeats' = GroupSize(n)
  /\ gi' = 0
  /\ r' = 0
  /\ a_idx' = 0
  /\ red_win' = 0
  /\ c_min' = 0
  /\ c_span' = 0
  /\ c_idx' = 0
  /\ positions' = [j \in 1..n |-> <<>>]
  /\ result' = <<>>
  /\ UNCHANGED samplerFields

\* lines 426-430: the phrase of the next group
NgramsGroup ==
  /\ spc = "ngrams_loop"
  /\ gi < sample_count
  /\ IF ri >= PoolLen
       THEN /\ spc' = "error"
            /\ UNCHANGED <<ri, phrase_keys, r>>
       ELSE \E pt_idx \in Draws(ri) :
              /\ ri' = ri + 1
              /\ phrase_keys' =
                   SliceFill(phrase_keys, gi, repeats, phrase_table[pt_idx + 1])
              /\ r' = 0
              /\ spc' = "seq_sample"
  /\ UNCHANGED <<samplerFields, sample_count, gram_n, pad_key, repeats, gi,
                 anc_keys, pos_keys, key_seqs, a_idx, red_win, c_min, c_span, c_idx,
                 positions, result>>

\* line 338 with a read for every key of the n-gram (faulty variant)
SeqReads_PerKey == gram_n

\* line 338: ri[0] += 1, the one read of a sample (its stop position)
SeqReads == 1

RECURSIVE RowSet(_, _, _, _)
\* lines 341-349: the rows the loop over cur_pos may write, positions 0..n-1
RowSet(phrase, start_idx, pad, n) ==
  IF n = 0 THEN {<<>>}
  ELSE LET last == IF start_idx + (n - 1) < 0 THEN {pad}
                   ELSE ReadSet(phrase, start_idx + (n - 1))
       IN {Append(row, x) : row \in RowSet(phrase, start_idx, pad, n - 1),
                            x \in last}

\* fast_seq_sample, lines 333-349: sample r of the group.  A phrase of
\* length 1 divides by zero; for length 0 the remainder modulo -1 is 0,
\* stop_idx is 1 and the row is read outside the phrase, which faults or
\* yields whatever lies there.
SeqSample ==
  /\ spc = "seq_sample"
  /\ LET phrase_len == Len(CurPhrase)
         j == gi + r
     IN \/ \* ZeroDivisionError (length 1), or the read outside the empty
           \* phrase faults
           /\ phrase_len <= 1
           /\ spc' = "error"
           /\ UNCHANGED <<ri, r, gi, key_seqs, positions>>
        \/ /\ phrase_len # 1
           /\ \E v \in Draws(ri) :
                LET stop_idx == IF phrase_len = 0 THEN 1
                                ELSE StopIdx(v, phrase_len)
                    start_idx == StartIdx(stop_idx, gram_n)
                IN /\ \E row \in RowSet(CurPhrase, start_idx, pad_key, gram_n) :
                        key_seqs' = [key_seqs EXCEPT ![j + 1] = row]
                   /\ positions' = [positions EXCEPT ![j + 1] = <<stop_idx>>]
           /\ ri' = ri + SeqReads
           /\ r' = r + 1
           /\ IF r + 1 < repeats
                THEN spc' = "seq_sample" /\ gi' = gi
                ELSE spc' = "ngrams_loop" /\ gi' = gi + repeats
  /\ UNCHANGED <<samplerFields, sample_count, gram_n, pad_key, repeats,
                 anc_keys, pos_keys, phrase_keys, a_idx, red_win, c_min, c_span, c_idx,
                 result>>

\* lines 432-434
ReturnNgrams ==
  /\ spc = "ngrams_loop"
  /\ gi >= sample_count
  /\ result' = [key_seqs |-> key_seqs, phrase_keys |-> CapKeys(phrase_keys)]
  /\ spc' = "ngrams_returned"
  /\ UNCHANGED <<samplerFields, sample_count, gram_n, pad_key, repeats, gi, r,
                 ri, anc_keys, pos_keys, phrase_keys, key_seqs, a_idx, red_win, c_min,
                 c_span, c_idx, positions>>

\* the caller drops the result; the sampler is ready for the next call.
\* The call's cursor is a local of the frame that is gone: ri keeps the
\* value the call left, which no later call may see.
CallEnds ==
  /\ spc \in CallOver
  /\ spc' = "idle"
  /\ sample_count' = 0
  /\ gram_n' = 0
  /\ pad_key' = 0
  /\ repeats' = 0
  /\ gi' = 0
  /\ r' = 0
  /\ anc_keys' = <<>>
  /\ pos_keys' = <<>>
  /\ phrase_keys' = <<>>
  /\ key_seqs' = <<>>
  /\ a_idx' = 0
  /\ red_win' = 0
  /\ c_min' = 0
  /\ c_span' = 0
  /\ c_idx' = 0
  /\ positions' = <<>>
  /\ result' = <<>>
  /\ UNCHANGED <<samplerFields, ri>>

NextSample ==
  \/ \E n \in 1..MaxSamples :
        CallSamplePairs(n)
        /\ UNCHANGED <<vocabVars, huffVars, tailVars, tableVars, negVars>>
  \/ PairsGroup
     /\ UNCHANGED <<vocabVars, huffVars, tailVars, tableVars, negVars>>
  \/ PairAnchor
     /\ UNCHANGED <<vocabVars, huffVars, tailVars, tableVars, negVars>>
  \/ PairRedraw
     /\ UNCHANGED <<vocabVars, huffVars, tailVars, tableVars, negVars>>
  \/ PairStore
     /\ UNCHANGED <<vocabVars, huffVars, tailVars, tableVars, negVars>>
  \/ ReturnPairs
     /\ UNCHANGED <<vocabVars, huffVars, tailVars, tableVars, negVars>>
  \/ \E n \in 1..MaxSamples, g \in 1..MaxGramN, pk \in PadKeys :
        CallSampleNgrams(n, g, pk)
        /\ UNCHANGED <<vocabVars, huffVars, tailVars, tableVars, negVars>>
  \/ NgramsGroup
     /\ UNCHANGED <<vocabVars, huffVars, tailVars, tableVars, negVars>>
  \/ SeqSample
     /\ UNCHANGED <<vocabVars, huffVars, tailVars, tableVars, negVars>>
  \/ ReturnNgrams
     /\ UNCHANGED <<vocabVars, huffVars, tailVars, tableVars, negVars>>
  \/ CallEnds
     /\ UNCHANGED <<vocabVars, huffVars, tailVars, tableVars, negVars>>

(***************************************************************************)
(* The table sweep: _make_table (lines 204-228) for t_kind = "vocab" and   *)
(* PhraseSampler._make_table (lines 367-385) for t_kind = "phrase", one    *)
(* step per iteration of the loop over tidx.  d1 is a float: the model     *)
(* keeps the exact sum d1.cum / power_sum and the accumulated rounding     *)
(* error d1.err / FloatRes apart.                                          *)
(***************************************************************************)
Pow75Milli == <<1000, 1681, 2279, 2828, 3343, 3833, 4303, 4756>>

\* count**power for power = 0.75 (lines 216, 220, 225), to three decimals
Pow75(c) ==
  CASE c = 0 -> 0
    [] c \in 1..8 -> Pow75Milli[c]
    [] c = 10 -> 5623
    [] c = 80 -> 26749

\* the weight of an index: w2v[k2w[widx]].count**power (lines 220 / 225),
\* resp. phrase_lens[widx] (lines 377 / 382)
Weight(kind, x) == IF kind = "vocab" THEN Pow75(x) ELSE x

RECURSIVE WeightSum(_, _)
WeightSum(kind, items) ==
  IF items = <<>> THEN 0
  ELSE Weight(kind, Head(items)) + WeightSum(kind, Tail(items))

\* line 216: power_sum; line 374: len_sum
power_sum == WeightSum(t_kind, t_items)

\* line 212: vocab_size; line 372: phrase_count
vocab_size == Len(t_items)

\* the rounding error of one float operation, in units of 1 / FloatRes
Roundings == {-1, 0, 1}

\* the error of an operation on a weight: a zero weight divides and adds
\* exactly
RoundingsOf(w) == IF w = 0 THEN {0} ELSE Roundings

\* lines 223 / 380 with >= for > (faulty variant)
Exceeds_OrEqual(i, size, d) ==
  /\ ~d.nan
  /\ i * power_sum * FloatRes >= (d.cum * FloatRes + d.err * power_sum) * size

\* lines 223 / 380 without float(): the integer quotient tidx / table_size
\* (faulty variant)
Exceeds_IntDiv(i, size, d) ==
  /\ ~d.nan
  /\ (i \div size) * power_sum * FloatRes >
        d.cum * FloatRes + d.err * power_sum

\* lines 223 / 380: float(tidx) / table_size > d1, false when d1 is nan
Exceeds(i, size, d) ==
  /\ ~d.nan
  /\ i * power_sum * FloatRes > (d.cum * FloatRes + d.err * power_sum) * size

\* line 222 / 379 writing a key that counts from 1 (faulty variant)
TableEntry_OneBased(w) == w + 1

\* line 222 / 379: table[tidx] = widx
TableEntry(w) == w

\* lines 226-227 / 383-384: the clamp to the last index
Clamp(w, n) == IF w >= n THEN n - 1 ELSE w

IdleTableVars ==
  /\ tpc = "none"
  /\ t_kind = "vocab"
  /\ t_items = <<>>
  /\ t_size = 0
  /\ tidx = 0
  /\ widx = 0
  /\ d1 = [nan |-> FALSE, cum |-> 0, err |-> 0]
  /\ table = <<>>
  /\ t_exact = TRUE
  /\ lookups = {}

\* the counts 10, 10, 80 of the three-token example
TextbookTableCounts == <<10, 10, 80>>

\* the vocabularies (word counts by index) and phrase lists (phrase lengths
\* by index) the tables are built from
ItemLists == UNION {[1..n -> 0..MaxItem] : n \in 0..MaxItems}

InitTableVars ==
  /\ tpc = "start"
  /\ \/ /\ t_kind \in {"vocab", "phrase"}
        /\ t_items \in ItemLists
        /\ t_size \in 0..TableSize
     \/ /\ t_kind = "vocab"
        /\ t_items = TextbookTableCounts
        /\ t_size = TextbookTableSize
  /\ tidx = 0
  /\ widx = 0
  /\ d1 = [nan |-> FALSE, cum |-> 0, err |-> 0]
  /\ table = <<>>
  /\ t_exact = TRUE
  /\ lookups = {}

\* lines 212-220 / 372-377: the table, the sum and the first share.  An
\* empty vocabulary has no key 0 (KeyError, resp. IndexError); a zero sum
\* raises ZeroDivisionError in _make_table and gives nan in numpy.
TableStart ==
  /\ tpc = "start"
  /\ table' = <<>>
  /\ tidx' = 0
  /\ widx' = 0
  /\ lookups' = {}
  /\ IF vocab_size = 0 \/ (power_sum = 0 /\ t_kind = "vocab")
       THEN /\ tpc' = "error"
            /\ UNCHANGED <<d1, t_exact>>
       ELSE IF power_sum = 0
         THEN /\ tpc' = "sweep"
              /\ d1' = [nan |-> TRUE, cum |-> 0, err |-> 0]
              /\ UNCHANGED t_exact
         ELSE /\ tpc' = "sweep"
              /\ \E e \in RoundingsOf(Weight(t_kind, t_items[1])) :
                   /\ d1' = [nan |-> FALSE, cum |-> Weight(t_kind, t_items[1]),
                             err |-> e]
                   /\ t_exact' = (e = 0)
  /\ UNCHANGED <<t_kind, t_items, t_size>>

\* lines 222-227 / 379-384: one iteration of the sweep.  When the cursor
\* advances to vocab_size, the lookup of line 225 / 382 raises (KeyError,
\* resp. IndexError) before the clamp of line 226 / 383 is reached.
TableStep ==
  /\ tpc = "sweep"
  /\ tidx < t_size
  /\ table' = Append(table, TableEntry(widx))
  /\ IF Exceeds(tidx, t_size, d1)
       THEN /\ lookups' = lookups \cup {widx + 1}
            /\ IF widx + 1 >= vocab_size
                 THEN /\ tpc' = "error"
                      /\ widx' = widx + 1
                      /\ UNCHANGED <<tidx, d1, t_exact>>
                 ELSE LET w == Weight(t_kind, t_items[widx + 2])
                      IN /\ \E e \in RoundingsOf(w) :
                              /\ d1' = [d1 EXCEPT !.cum = @ + w, !.err = @ + e]
                              /\ t_exact' = (t_exact /\ e = 0)
                         /\ widx' = Clamp(widx + 1, vocab_size)
                         /\ tidx' = tidx + 1
                         /\ UNCHANGED tpc
       ELSE /\ widx' = Clamp(widx, vocab_size)
            /\ tidx' = tidx + 1
            /\ UNCHANGED <<tpc, d1, t_exact, lookups>>
  /\ UNCHANGED <<t_kind, t_items, t_size>>

\* lines 228 / 385: the loop is over, the table is returned
TableReturn ==
  /\ tpc = "sweep"
  /\ tidx >= t_size
  /\ tpc' = "done"
  /\ UNCHANGED <<t_kind, t_items, t_size, tidx, widx, d1, table, t_exact,
                 lookups>>

NextTable ==
  \/ TableStart
     /\ UNCHANGED <<vocabVars, huffVars, sampVars, tailVars, negVars>>
  \/ TableStep
     /\ UNCHANGED <<vocabVars, huffVars, sampVars, tailVars, negVars>>
  \/ TableReturn
     /\ UNCHANGED <<vocabVars, huffVars, sampVars, tailVars, negVars>>

(***************************************************************************)
(* build_vocab after the vocabulary is indexed, lines 127-186:             *)
(* _precalc_downsampling (188-202), then _create_binary_tree and           *)
(* _make_table as the arguments ask.  The arguments down_sample,           *)
(* compute_hs_tree and compute_ns_table are drawn where line 132 first     *)
(* uses one of them.                                                       *)
(***************************************************************************)

\* the down_sample arguments, as fractions: 0.0 (the default), 1e-9 (below
\* the threshold of line 195), 0.001 and 2.0
DownSamples ==
  {[n |-> 0, d |-> 1], [n |-> 1, d |-> 1000000000], [n |-> 1, d |-> 1000],
   [n |-> 2, d |-> 1]}

\* line 195: sample = (down_sample > 1e-8)
Samples(ds) == ds.n * 100000000 > ds.d

\* line 200: down_sample / (v.count / total_words) raises ZeroDivisionError
\* when total_words is 0 or the quotient is 0.  The operands are ints: where
\* `/` is the integer division (Python 2; the file imports no division from
\* __future__), the quotient is 0 for every count below total_words.
DivRaises(count, total, int_div) ==
  total = 0 \/ count = 0 \/ (int_div /\ count < total)

\* line 200: down_sample / (v.count / total_words), the square of prob, as
\* a fraction; the integer quotient of a count equal to total_words is 1
ProbSquare(count, total, ds, int_div) ==
  IF int_div THEN [sq_n |-> ds.n, sq_d |-> ds.d]
  ELSE [sq_n |-> ds.n * total, sq_d |-> ds.d * count]

\* lines 198-201: min(prob, 1.0) with prob = 1.0, or the square root of
\* line 200 when sampling; kept as the fraction sq_n / sq_d that is its square
SampleProb(count, total, ds, int_div) ==
  LET sq == ProbSquare(count, total, ds, int_div)
  IN IF ~Samples(ds) \/ sq.sq_n >= sq.sq_d
       THEN [sq_n |-> 1, sq_d |-> 1]
       ELSE sq

\* line 132: _precalc_downsampling(words_to_vocabs, down_sample)
PrecalcDownsampling ==
  /\ vpc = "built"
  /\ \E ds \in DownSamples, hs \in BOOLEAN, ns \in BOOLEAN, int_div \in BOOLEAN :
        LET total == SumOver(words_to_vocabs, DOMAIN words_to_vocabs)
        IN /\ down_sample' = ds
           /\ compute_hs_tree' = hs
           /\ compute_ns_table' = ns
           /\ IF Samples(ds) /\ \E w \in DOMAIN words_to_vocabs :
                   DivRaises(words_to_vocabs[w].count, total, int_div)
                THEN /\ vpc' = "raised"
                     /\ UNCHANGED words_to_vocabs
                ELSE /\ vpc' = "downsampled"
                     /\ words_to_vocabs' =
                          [w \in DOMAIN words_to_vocabs |->
                             [count |-> words_to_vocabs[w].count,
                              index |-> words_to_vocabs[w].index,
                              sample_prob |->
                                SampleProb(words_to_vocabs[w].count, total, ds,
                                           int_div)]]
  /\ UNCHANGED <<min_count, sentence_no, total_words, raw_vocab, visited,
                 words_to_keys, keys_to_words, idx, unk_count, corpus>>
  /\ UNCHANGED <<huffVars, sampVars, tableVars, negVars>>

\* the count of the word with key k
KeyCount(k) == words_to_vocabs[keys_to_words[k]].count

\* lines 180-181: result['hs_tree'] = _create_binary_tree(words_to_vocabs)
CallHsTree ==
  /\ vpc = "downsampled"
  /\ IF compute_hs_tree
       THEN /\ vpc' = "hs_tree"
            /\ hpc' = "start"
            /\ \E p \in DictOrders(Cardinality(DOMAIN words_to_vocabs)) :
                 w2v' = [k \in DOMAIN p |->
                           [count |-> KeyCount(p[k]), index |-> p[k]]]
       ELSE /\ vpc' = "ns_table"
            /\ UNCHANGED <<hpc, w2v>>
  /\ UNCHANGED <<min_count, sentence_no, total_words, raw_vocab, visited,
                 words_to_vocabs, words_to_keys, keys_to_words, idx,
                 unk_count, corpus>>
  /\ UNCHANGED <<nodes, heap, mi, stack, key_dict, sign_dict, hsm_tree,
                 max_hsm_key>>
  /\ UNCHANGED <<sampVars, tailVars, tableVars, negVars>>

\* line 181: _create_binary_tree returns or raises
HsTreeReturns ==
  /\ vpc = "hs_tree"
  /\ hpc \in {"done", "error"}
  /\ vpc' = IF hpc = "done" THEN "ns_table" ELSE "raised"
  /\ UNCHANGED <<min_count, sentence_no, total_words, raw_vocab, visited,
                 words_to_vocabs, words_to_keys, keys_to_words, idx,
                 unk_count, corpus>>
  /\ UNCHANGED <<huffVars, sampVars, tailVars, tableVars, negVars>>

\* lines 182-185: result['ns_table'] = _make_table(words_to_vocabs,
\* keys_to_words, words_to_keys), with the default table_size
CallNsTable ==
  /\ vpc = "ns_table"
  /\ IF compute_ns_table
       THEN /\ vpc' = "make_table"
            /\ tpc' = "start"
            /\ t_kind' = "vocab"
            /\ t_items' = [k \in 1..Cardinality(DOMAIN keys_to_words) |->
                             KeyCount(k - 1)]
            /\ t_size' = TableSize
       ELSE /\ vpc' = "returned"
            /\ UNCHANGED <<tpc, t_kind, t_items, t_size>>
  /\ UNCHANGED <<min_count, sentence_no, total_words, raw_vocab, visited,
                 words_to_vocabs, words_to_keys, keys_to_words, idx,
                 unk_count, corpus>>
  /\ UNCHANGED <<tidx, widx, d1, table, t_exact, lookups>>
  /\ UNCHANGED <<huffVars, sampVars, tailVars, negVars>>

\* lines 184-186: _make_table returns or raises; return result
NsTableReturns ==
  /\ vpc = "make_table"
  /\ tpc \in {"done", "error"}
  /\ vpc' = IF tpc = "done" THEN "returned" ELSE "raised"
  /\ UNCHANGED <<min_count, sentence_no, total_words, raw_vocab, visited,
                 words_to_vocabs, words_to_keys, keys_to_words, idx,
                 unk_count, corpus>>
  /\ UNCHANGED <<huffVars, sampVars, tailVars, tableVars, negVars>>

NextBuild ==
  \/ NextVocab
  \/ PrecalcDownsampling
  \/ CallHsTree
  \/ NextHuff
  \/ HsTreeReturns
  \/ CallNsTable
  \/ NextTable
  \/ NsTableReturns

(***************************************************************************)
(* NegSampler, lines 436-455.                                              *)
(***************************************************************************)

\* the tables a NegSampler is built over: an empty one, one entry, and a
\* table as _make_table returns it
NegTables == {<<>>, <<4>>, <<0, 0, 1>>}

neg_table_size == Len(neg_table)

\* lines 448-449 without the default (faulty variant)
NegCols_NoDefault(k) == k

\* lines 448-449: if (neg_count == 0): neg_count = self.neg_count
NegCols(k) == IF k = 0 THEN neg_count ELSE k

IdleNegVars ==
  /\ neg_table = <<>>
  /\ neg_count = 0
  /\ npc = "none"
  /\ neg_n = 0
  /\ neg_k = 0
  /\ neg_cols = 0
  /\ ni = 0
  /\ neg_keys = <<>>
  /\ neg_result = <<>>

\* NegSampler.__init__, lines 440-445
InitNegVars ==
  /\ neg_table \in NegTables
  /\ neg_count \in 0..MaxNegCount
  /\ npc = "idle"
  /\ neg_n = 0
  /\ neg_k = 0
  /\ neg_cols = 0
  /\ ni = 0
  /\ neg_keys = <<>>
  /\ neg_result = <<>>

\* sample(sample_count, neg_count), lines 448-451.  npr.randint raises
\* ValueError when high is 0; for a shape without entries some versions of
\* numpy return the empty array instead.
CallNegSample(n, k) ==
  /\ npc = "idle"
  /\ neg_n' = n
  /\ neg_k' = k
  /\ neg_cols' = NegCols(k)
  /\ neg_keys' = [j \in 1..n |-> Zeros(NegCols(k))]
  /\ ni' = 0
  /\ neg_result' = <<>>
  /\ \/ /\ neg_table_size > 0 \/ n * NegCols(k) = 0
        /\ npc' = "columns"
     \/ /\ neg_table_size = 0
        /\ npc' = "error"
  /\ UNCHANGED <<neg_table, neg_count>>

\* lines 452-453: column i of the matrix, from column i of neg_idx; every
\* entry of neg_idx is a draw of its own from [0, neg_table_size)
NegColumn ==
  /\ npc = "columns"
  /\ ni < neg_cols
  /\ \E pos \in [1..neg_n -> 0..(neg_table_size - 1)] :
        neg_keys' = [j \in 1..neg_n |->
                       [neg_keys[j] EXCEPT ![ni + 1] = neg_table[pos[j] + 1]]]
  /\ ni' = ni + 1
  /\ UNCHANGED <<neg_table, neg_count, npc, neg_n, neg_k, neg_cols,
                 neg_result>>

\* lines 454-455
ReturnNeg ==
  /\ npc = "columns"
  /\ ni >= neg_cols
  /\ neg_result' = [rows |-> neg_n, cols |-> neg_cols, keys |-> neg_keys]
  /\ npc' = "returned"
  /\ UNCHANGED <<neg_table, neg_count, neg_n, neg_k, neg_cols, ni, neg_keys>>

\* the caller is done with the call: the next one may start
NegCallEnds ==
  /\ npc \in {"returned", "error"}
  /\ npc' = "idle"
  /\ neg_n' = 0
  /\ neg_k' = 0
  /\ neg_cols' = 0
  /\ ni' = 0
  /\ neg_keys' = <<>>
  /\ neg_result' = <<>>
  /\ UNCHANGED <<neg_table, neg_count>>

(***************************************************************************)
(* Sequences of calls of sample_pairs, sample_ngrams and NegSampler.sample *)
(* on one PhraseSampler and one NegSampler.  The source starts no thread:  *)
(* a call begins when the one before it is over.                           *)
(***************************************************************************)

\* the phrase lists, sample counts and n-gram sizes of the call sequences
CallPhraseLists == {<<P2, P3>>}
CallSizes == {1}
CallGramNs == {2}

otherVars == <<vocabVars, huffVars, tailVars, tableVars>>

\* sequences of sample_pairs calls
NextPairCalls ==
  \/ \E n \in CallSizes :
        CallSamplePairs(n) /\ UNCHANGED <<otherVars, negVars>>
  \/ PairsGroup /\ UNCHANGED <<otherVars, negVars>>
  \/ PairAnchor /\ UNCHANGED <<otherVars, negVars>>
  \/ PairRedraw /\ UNCHANGED <<otherVars, negVars>>
  \/ PairStore /\ UNCHANGED <<otherVars, negVars>>
  \/ ReturnPairs /\ UNCHANGED <<otherVars, negVars>>
  \/ CallEnds /\ UNCHANGED <<otherVars, negVars>>

\* an iteration of lines 322-324 whose draw selects a position other than
\* the anchor
ExitDraw == PairRedraw /\ c_idx' # a_idx /\ UNCHANGED <<otherVars, negVars>>

NextCalls ==
  \/ \E n \in CallSizes :
        npc = "idle" /\ CallSamplePairs(n) /\ UNCHANGED <<otherVars, negVars>>
  \/ PairsGroup /\ UNCHANGED <<otherVars, negVars>>
  \/ PairAnchor /\ UNCHANGED <<otherVars, negVars>>
  \/ PairRedraw /\ UNCHANGED <<otherVars, negVars>>
  \/ PairStore /\ UNCHANGED <<otherVars, negVars>>
  \/ ReturnPairs /\ UNCHANGED <<otherVars, negVars>>
  \/ \E n \in CallSizes, g \in CallGramNs, pk \in PadKeys :
        npc = "idle" /\ CallSampleNgrams(n, g, pk)
        /\ UNCHANGED <<otherVars, negVars>>
  \/ NgramsGroup /\ UNCHANGED <<otherVars, negVars>>
  \/ SeqSample /\ UNCHANGED <<otherVars, negVars>>
  \/ ReturnNgrams /\ UNCHANGED <<otherVars, negVars>>
  \/ CallEnds /\ UNCHANGED <<otherVars, negVars>>
  \/ \E n \in 0..MaxNegRows, k \in 0..MaxNegCols :
        spc = "idle" /\ CallNegSample(n, k)
        /\ UNCHANGED <<otherVars, sampVars>>
  \/ NegColumn /\ UNCHANGED <<otherVars, sampVars>>
  \/ ReturnNeg /\ UNCHANGED <<otherVars, sampVars>>
  \/ NegCallEnds /\ UNCHANGED <<otherVars, sampVars>>

(***************************************************************************)
(* The groups of sample_pairs and sample_ngrams: calls with sample counts  *)
(* of one group and of several, over two phrases of two keys each.         *)
(***************************************************************************)
\* a second phrase of two keys
Q2 == <<3, 4>>

GroupPhraseLists == {<<P2, Q2>>}

\* sample counts for sample_pairs: one group of 4, two groups of 3
PairGroupSizes == {4, 6}

\* sample counts for sample_ngrams: one group of 5, two of 3, seven of 1
NgramGroupSizes == {5, 6, 7}

\* PhraseSampler(phrase_list, 1), lines 358-365
InitGroupVars ==
  /\ phrase_list \in GroupPhraseLists
  /\ max_window = 1
  /\ \E arg \in 1..MaxPhraseKeyArg :
        max_phrase_key = MaxPhraseKey(phrase_list, arg)
  /\ phrase_table = MakeTable(phrase_list, TableSize)
  /\ spc = "idle"
  /\ sample_count = 0
  /\ gram_n = 0
  /\ pad_key = 0
  /\ repeats = 0
  /\ gi = 0
  /\ r = 0
  /\ ri = 0
  /\ anc_keys = <<>>
  /\ pos_keys = <<>>
  /\ phrase_keys = <<>>
  /\ key_seqs = <<>>
  /\ a_idx = 0
  /\ red_win = 0
  /\ c_min = 0
  /\ c_span = 0
  /\ c_idx = 0
  /\ positions = <<>>
  /\ result = <<>>

NextGroups ==
  \/ \E n \in PairGroupSizes :
        CallSamplePairs(n) /\ UNCHANGED <<otherVars, negVars>>
  \/ PairsGroup /\ UNCHANGED <<otherVars, negVars>>
  \/ PairAnchor /\ UNCHANGED <<otherVars, negVars>>
  \/ PairRedraw /\ UNCHANGED <<otherVars, negVars>>
  \/ PairStore /\ UNCHANGED <<otherVars, negVars>>
  \/ ReturnPairs /\ UNCHANGED <<otherVars, negVars>>
  \/ \E n \in NgramGroupSizes, g \in CallGramNs, pk \in PadKeys :
        CallSampleNgrams(n, g, pk) /\ UNCHANGED <<otherVars, negVars>>
  \/ NgramsGroup /\ UNCHANGED <<otherVars, negVars>>
  \/ SeqSample /\ UNCHANGED <<otherVars, negVars>>
  \/ ReturnNgrams /\ UNCHANGED <<otherVars, negVars>>
  \/ CallEnds /\ UNCHANGED <<otherVars, negVars>>

IdleTailVars ==
  /\ down_sample = [n |-> 0, d |-> 1]
  /\ compute_hs_tree = TRUE
  /\ compute_ns_table = TRUE

InitSample ==
  InitSampVars /\ IdleVocabVars /\ IdleHuffVars /\ IdleTailVars /\ IdleTableVars
  /\ IdleNegVars

SpecSample == InitSample /\ [][NextSample]_vars

InitHuff ==
  InitHuffVars /\ IdleVocabVars /\ IdleSampVars /\ IdleTailVars /\ IdleTableVars
  /\ IdleNegVars

SpecHuff == InitHuff /\ [][NextHuff]_vars

InitHuffScaled ==
  InitHuffScaledVars /\ IdleVocabVars /\ IdleSampVars /\ IdleTailVars
  /\ IdleTableVars /\ IdleNegVars

SpecHuffScaled == InitHuffScaled /\ [][NextHuff]_vars

InitVocab ==
  InitVocabVars /\ IdleHuffVars /\ IdleSampVars /\ IdleTailVars /\ IdleTableVars
  /\ IdleNegVars

SpecVocab == InitVocab /\ [][NextVocab]_vars

\* build_vocab as a whole, lines 71-186
SpecBuild == InitVocab /\ [][NextBuild]_vars

InitTable ==
  InitTableVars /\ IdleVocabVars /\ IdleHuffVars /\ IdleSampVars /\ IdleTailVars
  /\ IdleNegVars

SpecTable == InitTable /\ [][NextTable]_vars

InitCalls ==
  /\ InitSampVars
  /\ phrase_list \in CallPhraseLists
  /\ InitNegVars
  /\ IdleVocabVars /\ IdleHuffVars /\ IdleTailVars /\ IdleTableVars

SpecCalls == InitCalls /\ [][NextCalls]_vars

\* phrases of two, three and five keys: anchors at both ends and inside
PairCallPhraseLists == {<<P2, P3>>, <<P5>>}

InitPairCalls ==
  /\ InitSampVars
  /\ phrase_list \in PairCallPhraseLists
  /\ IdleVocabVars /\ IdleHuffVars /\ IdleTailVars /\ IdleTableVars
  /\ IdleNegVars

\* calls of sample_pairs with fair random draws: the program keeps running,
\* and a value that can be drawn again and again is drawn in the end
SpecPairsFair ==
  /\ InitPairCalls
  /\ [][NextPairCalls]_vars
  /\ WF_vars(NextPairCalls)
  /\ SF_vars(ExitDraw)

InitGroups ==
  /\ InitGroupVars
  /\ IdleVocabVars /\ IdleHuffVars /\ IdleTailVars /\ IdleTableVars
  /\ IdleNegVars

SpecGroups == InitGroups /\ [][NextGroups]_vars

(***************************************************************************)
(* Properties of build_vocab.                                              *)
(***************************************************************************)
Built == vpc = "built"

CorpusSize == corpus["a"] + corpus["b"] + corpus["c"] + corpus[UNK]

\* the raw tokens whose count is below the threshold and that are not *UNK*
Dropped == {w \in Words \ {UNK} : corpus[w] > 0 /\ corpus[w] < min_count}

RECURSIVE CorpusCount(_)
CorpusCount(S) ==
  IF S = {} THEN 0
  ELSE LET x == CHOOSE y \in S : TRUE IN corpus[x] + CorpusCount(S \ {x})

Range(f) == {f[x] : x \in DOMAIN f}

\* C1: after build_vocab on a non-empty corpus, the counts of the final
\* vocabulary (unknown token included) sum to the number of tokens scanned.
C1_MassConserved ==
  (Built /\ total_words > 0) =>
     /\ SumOver(words_to_vocabs, DOMAIN words_to_vocabs) = total_words
     /\ total_words = CorpusSize

\* a built vocabulary where words were dropped and *UNK* was a raw token too
C1_Witness ==
  /\ Built
  /\ unk_count > 0
  /\ corpus[UNK] > 0
  /\ Cardinality(DOMAIN words_to_vocabs) >= 2

\* C2: a raw token other than *UNK* with a count below min_count gets no
\* index (it is in none of the three maps), and its count goes to the
\* unknown token's count and to no other entry.
C2_DroppedFoldIntoUnk ==
  Built =>
     /\ \A w \in Dropped :
          /\ w \notin DOMAIN words_to_vocabs
          /\ w \notin DOMAIN words_to_keys
          /\ w \notin Range(keys_to_words)
     /\ UNK \in DOMAIN words_to_vocabs
     /\ words_to_vocabs[UNK].count = corpus[UNK] + CorpusCount(Dropped)
     /\ \A w \in DOMAIN words_to_vocabs \ {UNK} :
          words_to_vocabs[w].count = corpus[w]

\* two different words were dropped and a third one was kept
C2_Witness ==
  /\ Built
  /\ Cardinality(Dropped) >= 2
  /\ \E w \in DOMAIN words_to_vocabs : w # UNK

\* C3: the assigned indices are exactly 0 .. |vocabulary|-1, without gap or
\* duplicate, and *UNK* is in the vocabulary exactly once, whether or not it
\* occurs in the raw corpus (also with a count below min_count).
C3_DenseIndices ==
  Built =>
     LET n == Cardinality(DOMAIN words_to_vocabs)
     IN /\ \A w \in DOMAIN words_to_vocabs :
             "index" \in DOMAIN words_to_vocabs[w]
        /\ {IF "index" \in DOMAIN words_to_vocabs[w]
              THEN words_to_vocabs[w].index ELSE -1
            : w \in DOMAIN words_to_vocabs} = 0..(n - 1)
        /\ Range(words_to_keys) = 0..(n - 1)
        /\ DOMAIN keys_to_words = 0..(n - 1)
        /\ UNK \in DOMAIN words_to_vocabs
        /\ Cardinality({k \in DOMAIN keys_to_words : keys_to_words[k] = UNK}) = 1

\* *UNK* occurs in the corpus below the threshold and is carried over
C3_Witness ==
  /\ Built
  /\ corpus[UNK] > 0
  /\ corpus[UNK] < min_count
  /\ Cardinality(DOMAIN words_to_vocabs) >= 2
  /\ Dropped # {}

\* C4: the three maps have the same size, keys_to_words inverts
\* words_to_keys in both directions, and every Vocab's index is its key.
C4_MapsConsistent ==
  Built =>
     /\ Cardinality(DOMAIN words_to_vocabs) = Cardinality(DOMAIN words_to_keys)
     /\ Cardinality(DOMAIN words_to_keys) = Cardinality(DOMAIN keys_to_words)
     /\ \A w \in DOMAIN words_to_keys :
          /\ words_to_keys[w] \in DOMAIN keys_to_words
          /\ keys_to_words[words_to_keys[w]] = w
          /\ w \in DOMAIN words_to_vocabs
          /\ "index" \in DOMAIN words_to_vocabs[w]
          /\ words_to_vocabs[w].index = words_to_keys[w]
     /\ \A k \in DOMAIN keys_to_words :
          /\ keys_to_words[k] \in DOMAIN words_to_keys
          /\ words_to_keys[keys_to_words[k]] = k

\* three words are indexed, *UNK* added at the end
C4_Witness ==
  /\ Built
  /\ corpus[UNK] = 0
  /\ Cardinality(DOMAIN words_to_keys) >= 3

(***************************************************************************)
(* Properties of _create_binary_tree.                                      *)
(***************************************************************************)
HuffDone == hpc = "done"

\* the count of the word with index k
CountOf(k) == nodes[k].count

\* the code of index k as the matrices hold it: the positions before the
\* first padding key, as (key, sign) pairs
CodeLen(k) ==
  Cardinality({j \in DOMAIN hsm_tree.keys_to_code_keys[k] :
                 hsm_tree.keys_to_code_keys[k][j] # MAX_HSM_KEY + 1})

RECURSIVE WeightedSum(_, _, _)
\* the sum over k in S of c[k] * l[k]
WeightedSum(c, l, S) ==
  IF S = {} THEN 0
  ELSE LET x == CHOOSE y \in S : TRUE
       IN c[x] * l[x] + WeightedSum(c, l, S \ {x})

RECURSIVE Pow2(_)
Pow2(n) == IF n = 0 THEN 1 ELSE 2 * Pow2(n - 1)

\* Kraft's inequality: the lengths l over the indices S are the codeword
\* lengths of some binary prefix code iff the sum of 2^-l[k] is at most 1
Kraft(l, S, m) ==
  WeightedSum([k \in S |-> 1], [k \in S |-> Pow2(m - l[k])], S) <= Pow2(m)

\* the codeword lengths of the binary prefix codes over n words.  A prefix
\* code with a codeword longer than n-1 has an inner node with one child;
\* contracting it lengthens no codeword, so lengths up to n-1 reach the minimum.
PrefixCodeLengths(n) ==
  {l \in [0..(n - 1) -> 1..(n - 1)] : Kraft(l, 0..(n - 1), n - 1)}

\* the smallest weighted path length of a binary prefix code for the counts c
MinWeightedLength(c, n) ==
  LET costs == {WeightedSum(c, l, 0..(n - 1)) : l \in PrefixCodeLengths(n)}
  IN CHOOSE m \in costs : \A o \in costs : m <= o

TextbookMin ==
  MinWeightedLength([k \in 0..5 |-> TextbookCounts[k + 1]], 6)

IsTextbook == \E v \in TextbookVocabularies : w2v = v

\* C5: the code lengths minimise the sum of count x code length among all
\* binary prefix codes for the counts; the counts 5, 9, 12, 13, 16, 45 get
\* the lengths 4, 4, 3, 3, 3, 1.
C5_OptimalCode ==
  HuffDone =>
     LET n == VocabSize
         c == [k \in 0..(n - 1) |-> CountOf(k)]
         l == [k \in 0..(n - 1) |-> CodeLen(k)]
         cost == WeightedSum(c, l, 0..(n - 1))
     IN /\ DOMAIN hsm_tree.keys_to_code_keys = 0..(n - 1)
        /\ l \in PrefixCodeLengths(n)
        /\ IF IsTextbook
             THEN /\ cost = TextbookMin
                  /\ \A k \in 0..5 :
                       l[k] = CASE CountOf(k) = 5 -> 4 [] CountOf(k) = 9 -> 4
                                [] CountOf(k) = 12 -> 3 [] CountOf(k) = 13 -> 3
                                [] CountOf(k) = 16 -> 3 [] CountOf(k) = 45 -> 1
             ELSE cost = MinWeightedLength(c, n)

\* the textbook counts, built
C5_Witness == HuffDone /\ IsTextbook /\ CodeLen(5) = 1

\* the number of columns of the code-key matrix
MatrixWidth == Len(hsm_tree.keys_to_code_keys[0])

\* the first n positions of row k of the two matrices, as (key, sign) pairs
RowCode(k, n) ==
  [j \in 1..n |-> <<hsm_tree.keys_to_code_keys[k][j],
                    hsm_tree.keys_to_code_signs[k][j]>>]

IsPrefix(s, t) == Len(s) <= Len(t) /\ SubSeq(t, 1, Len(s)) = s

\* C6: every token's code length is at most the matrix width, every
\* vocabulary index has a row, and no token's (key, sign) code equals or is
\* a prefix of another token's code.
C6_PrefixFreeRows ==
  HuffDone =>
     LET V == 0..(VocabSize - 1)
     IN /\ DOMAIN key_dict = V
        /\ DOMAIN hsm_tree.keys_to_code_keys = V
        /\ DOMAIN hsm_tree.keys_to_code_signs = V
        /\ \A k \in V :
             /\ Len(key_dict[k].v) <= MatrixWidth
             /\ Len(hsm_tree.keys_to_code_keys[k]) = MatrixWidth
             /\ Len(hsm_tree.keys_to_code_signs[k]) = MatrixWidth
             /\ \A j \in 1..Len(key_dict[k].v) :
                  /\ hsm_tree.keys_to_code_keys[k][j] = key_dict[k].v[j]
                  /\ hsm_tree.keys_to_code_signs[k][j] = sign_dict[k].v[j]
        /\ \A a, b \in V :
             a # b => ~IsPrefix(RowCode(a, Len(key_dict[a].v)),
                                RowCode(b, Len(key_dict[b].v)))

\* four words whose codes have the lengths 1, 2, 3, 3
C6_Witness ==
  /\ HuffDone
  /\ VocabSize = 4
  /\ MatrixWidth = 3
  /\ \E k \in DOMAIN key_dict : Len(key_dict[k].v) = 1

\* C7: a token with a larger count never has a longer code than a token
\* with a smaller count.
C7_FrequentIsShorter ==
  HuffDone =>
     \A a, b \in DOMAIN key_dict :
        CountOf(a) > CountOf(b) => Len(key_dict[a].v) <= Len(key_dict[b].v)

\* a word with a larger count has a strictly shorter code than another
C7_Witness ==
  /\ HuffDone
  /\ \E a, b \in DOMAIN key_dict :
        CountOf(a) > CountOf(b) /\ Len(key_dict[a].v) < Len(key_dict[b].v)
  /\ \E a, b \in DOMAIN key_dict :
        a # b /\ CountOf(a) = CountOf(b) /\ Len(key_dict[a].v) # Len(key_dict[b].v)

(***************************************************************************)
(* Properties of PhraseSampler.                                            *)
(***************************************************************************)
PairsReturned == spc = "pairs_returned"
NgramsReturned == spc = "ngrams_returned"

\* the phrase output slot j (from 1) was sampled from
PhraseOf(j) == phrase_list[phrase_keys[j] + 1]

Distinct(phrase) ==
  \A p, q \in 1..Len(phrase) : p # q => phrase[p] # phrase[q]

\* C8: for every pair sample_pairs returns from a phrase of length >= 2,
\* the anchor and the context position lie in [0, phrase_len-1] and differ,
\* the two keys are the phrase's keys at these positions, and so the context
\* key differs from the anchor key when the phrase's keys are distinct.
C8_PairPositions ==
  PairsReturned =>
     \A j \in 1..sample_count :
        LET phrase == PhraseOf(j)
        IN Len(phrase) >= 2 =>
             /\ Len(positions[j]) = 2
             /\ LET a == positions[j][1]
                    c == positions[j][2]
                IN /\ a >= 0 /\ a <= Len(phrase) - 1
                   /\ c >= 0 /\ c <= Len(phrase) - 1
                   /\ a # c
                   /\ result.anc_keys[j] = phrase[a + 1]
                   /\ result.pos_keys[j] = phrase[c + 1]
                   /\ Distinct(phrase) => result.pos_keys[j] # result.anc_keys[j]

\* two pairs from [w0..w4] with max_window = 2: one at the left end with
\* the window clipped, one at the right end
C8_Witness ==
  /\ PairsReturned
  /\ phrase_list = <<P5>>
  /\ max_window = 2
  /\ sample_count = 2
  /\ positions = <<<<0, 2>>, <<4, 3>>>>
  /\ result.anc_keys = <<0, 4>>
  /\ result.pos_keys = <<2, 3>>

\* C9: for every row sample_ngrams returns from a phrase of length >= 2,
\* the stop position is in [1, phrase_len-1]; with start = stop - gram_n + 1,
\* position p holds pad_key when start + p < 0 and phrase[start + p]
\* otherwise, which is inside the phrase; the row ends with phrase[stop]; for
\* a phrase of length 3 and gram_n = 5 the first two positions hold pad_key.
C9_NgramRows ==
  NgramsReturned =>
     \A j \in 1..sample_count :
        LET phrase == PhraseOf(j)
            row == result.key_seqs[j]
        IN Len(phrase) >= 2 =>
             /\ Len(positions[j]) = 1
             /\ Len(row) = gram_n
             /\ LET stop == positions[j][1]
                    start == stop - gram_n + 1
                IN /\ stop >= 1 /\ stop <= Len(phrase) - 1
                   /\ \A p \in 0..(gram_n - 1) :
                        IF start + p < 0
                          THEN row[p + 1] = pad_key
                          ELSE /\ start + p <= Len(phrase) - 1
                               /\ row[p + 1] = phrase[start + p + 1]
                   /\ \A p \in (gram_n - Min(gram_n, stop + 1))..(gram_n - 1) :
                        start + p >= 0
                   /\ row[gram_n] = phrase[stop + 1]
                   /\ (Len(phrase) = 3 /\ gram_n = 5) =>
                         row[1] = pad_key /\ row[2] = pad_key

\* a phrase of length 3, gram_n = 5: three pads, then the keys up to stop = 1
C9_Witness ==
  /\ NgramsReturned
  /\ phrase_list = <<P3>>
  /\ gram_n = 5
  /\ pad_key = 0
  /\ positions[1] = <<1>>
  /\ result.key_seqs[1] = <<0, 0, 0, 5, 6>>

\* C10 as stated: every phrase key returned by sample_pairs and by
\* sample_ngrams is at most max_phrase_key - 1.
C10_KeysBelowMax ==
  (PairsReturned \/ NgramsReturned) =>
     \A j \in 1..sample_count : result.phrase_keys[j] <= max_phrase_key - 1

\* C10, amended: every phrase key returned is the smaller of max_phrase_key
\* and the index of the sampled phrase, hence at most max_phrase_key; it is
\* at most max_phrase_key - 1 when the list is not longer than the
\* max_phrase_key argument (max_phrase_key is then the list's length).
C10_KeysCapped ==
  (PairsReturned \/ NgramsReturned) =>
     \A j \in 1..sample_count :
        /\ result.phrase_keys[j] = Min(max_phrase_key, phrase_keys[j])
        /\ result.phrase_keys[j] <= max_phrase_key
        /\ max_phrase_key = Len(phrase_list) =>
              result.phrase_keys[j] <= max_phrase_key - 1

\* a list of three phrases with the argument 1: the third phrase is
\* returned under the key 1
C10_Witness ==
  /\ NgramsReturned
  /\ Len(phrase_list) = 3
  /\ max_phrase_key = 1
  /\ phrase_keys[1] = 2
  /\ result.phrase_keys[1] = 1

\* the positions of a running call of sample_pairs / sample_ngrams
InCall == {"pairs_loop", "pair_anchor", "pair_redraw", "ngrams_loop",
           "seq_sample"}

\* C11 as stated: when the cursor reaches the length of rand_pool before all
\* samples are drawn, the call fails: the cursor never passes the pool's
\* length (every read is at the cursor and moves it by one, so no read
\* happens at a position >= the pool's length), and no result is returned
\* by a call that read past the pool.
C11_ExhaustionIsFatal ==
  /\ spc \in InCall => ri <= PoolLen
  /\ (PairsReturned \/ NgramsReturned) => ri <= PoolLen


\* C13 as stated: _create_binary_tree on a vocabulary of exactly one token
\* does not raise; the token gets the empty code and the two matrices have
\* one row and no column.
C13_SingleTokenBuilds ==
  VocabSize = 1 =>
     /\ hpc # "error"
     /\ HuffDone =>
          /\ key_dict[0].v = <<>>
          /\ hsm_tree.keys_to_code_keys = [k \in {0} |-> <<>>]
          /\ hsm_tree.keys_to_code_signs = [k \in {0} |-> <<>>]

(***************************************************************************)
(* Properties of the table sweep.                                          *)
(***************************************************************************)
TableDone == tpc = "done"

\* the number of table positions that hold index i
Holding(i) == Cardinality({p \in 1..Len(table) : table[p] = i})

\* the weight the table is to give index i (from 0): count^0.75, resp. the
\* phrase's length
ShareWeight(i) ==
  IF t_kind = "vocab" THEN Pow75(t_items[i + 1]) ELSE t_items[i + 1]

\* the sum of these weights
ShareSum == WeightSum(t_kind, t_items)

\* the table is at least as large as the vocabulary and every index's share
\* table_size x weight / Z is at least one position; the sweep ran in exact
\* arithmetic
SharesAtLeastOne ==
  /\ t_exact
  /\ ShareSum > 0
  /\ t_size >= vocab_size
  /\ \A i \in 0..(vocab_size - 1) : t_size * ShareWeight(i) >= ShareSum

\* C16: the table _make_table returns is non-decreasing, and its first entry
\* is index 0.
C16_TableMonotone ==
  (TableDone /\ t_kind = "vocab") =>
     /\ Len(table) = t_size
     /\ \A p, q \in 1..Len(table) : p < q => table[p] <= table[q]
     /\ Len(table) >= 1 => table[1] = 0

\* a table over three words that holds all three indices
C16_Witness ==
  /\ TableDone
  /\ t_kind = "vocab"
  /\ vocab_size = 3
  /\ t_size = TableSize
  /\ \A i \in 0..2 : Holding(i) >= 1

\* C17 as stated: in exact arithmetic, with table_size >= vocabulary size and
\* every share at least one position, every index with a nonzero weight,
\* the last one included, appears in the table _make_table returns.
C17_EveryIndexAppears ==
  (TableDone /\ t_kind = "vocab" /\ SharesAtLeastOne) =>
     \A i \in 0..(vocab_size - 1) : ShareWeight(i) > 0 => Holding(i) >= 1

\* the weights of index i and of the indices after it, added up
TailWeight(i) ==
  WeightSum(t_kind, SubSeq(t_items, i + 1, Len(t_items)))

\* C17, amended: under the same conditions index 0 appears, and an index
\* i > 0 appears exactly when the shares of i and of the indices after it
\* add up to more than two positions; so every index appears when the last
\* index's share is more than two positions, and the last index is missing
\* when its share is at most two.
C17_AppearsIffTailOverTwo ==
  (TableDone /\ t_kind = "vocab" /\ SharesAtLeastOne) =>
     /\ Holding(0) >= 1
     /\ \A i \in 1..(vocab_size - 1) :
          Holding(i) >= 1 <=> t_size * TailWeight(i) > 2 * ShareSum

\* three words of equal count in a table of six positions: each share is two
\* positions and the last word is not in the table
C17_Witness ==
  /\ TableDone
  /\ t_kind = "vocab"
  /\ SharesAtLeastOne
  /\ t_items = <<1, 1, 1>>
  /\ table = <<0, 0, 0, 0, 1, 1>>

\* C18: in exact arithmetic with every share at least one position, the
\* number of positions holding index i differs from table_size x weight_i / Z
\* by at most 2; so for the counts 10, 10, 80.
C18_CountsNearShares ==
  (TableDone /\ t_kind = "vocab" /\ SharesAtLeastOne) =>
     \A i \in 0..(vocab_size - 1) :
        LET diff == Holding(i) * ShareSum - t_size * ShareWeight(i)
        IN /\ diff <= 2 * ShareSum
           /\ -diff <= 2 * ShareSum

\* the counts 10, 10, 80 in a table of 20 positions: the shares are 2.96,
\* 2.96 and 14.08 positions, the table holds 4, 3 and 13
C18_Witness ==
  /\ TableDone
  /\ SharesAtLeastOne
  /\ t_items = TextbookTableCounts
  /\ t_size = TextbookTableSize
  /\ Holding(0) = 4 /\ Holding(1) = 3 /\ Holding(2) = 13

\* C20 as stated: during the sweep of _make_table and of
\* PhraseSampler._make_table every value written to the table and every
\* weight lookup made when the cursor advances uses an index in
\* [0, size - 1], also when rounding leaves d1 below (table_size - 1) /
\* table_size at the last index.
C20_CursorInRange ==
  /\ \A p \in 1..Len(table) : table[p] >= 0 /\ table[p] <= vocab_size - 1
  /\ \A k \in lookups : k >= 0 /\ k <= vocab_size - 1

(***************************************************************************)
(* Properties of build_vocab as a whole.                                   *)
(***************************************************************************)

\* the sentence stream was empty: the scan is over and saw no sentence
EmptyStream == vpc # "scan" /\ sentence_no = -1

\* build_vocab's default options: no downsampling, both structures built
DefaultOptions ==
  /\ down_sample = [n |-> 0, d |-> 1]
  /\ compute_hs_tree
  /\ compute_ns_table

\* the positions of build_vocab from line 127 on, the exception excluded
Indexed == {"built", "downsampled", "hs_tree", "ns_table", "make_table",
            "returned"}

\* C12 as stated: build_vocab on an empty sentence stream, with its default
\* options, does not raise, and the vocabulary it returns holds only *UNK*,
\* with count 0 and index 0.
C12_EmptyCorpusBuilds ==
  (EmptyStream /\ DefaultOptions) =>
     /\ vpc # "raised"
     /\ vpc \in Indexed =>
          /\ DOMAIN words_to_vocabs = {UNK}
          /\ words_to_vocabs[UNK].count = 0
          /\ words_to_vocabs[UNK].index = 0
          /\ words_to_keys = (UNK :> 0)
          /\ keys_to_words = (0 :> UNK)

\* _precalc_downsampling raised: build_vocab ended at line 132
PrecalcRaised == vpc = "raised" /\ hpc = "idle" /\ tpc = "none"

\* C19 as stated: for every down_sample >= 0 the downsampling step of
\* build_vocab completes and gives every token of the final vocabulary,
\* *UNK* included, a sample_prob in [0, 1], equal to 1 for every token
\* when down_sample is 0; also when the final count of *UNK* is 0.
C19_SampleProbsInRange ==
  /\ ~PrecalcRaised
  /\ vpc \in (Indexed \ {"built"}) =>
       \A w \in DOMAIN words_to_vocabs :
          LET prob == words_to_vocabs[w].sample_prob
          IN /\ prob.sq_d > 0
             /\ prob.sq_n >= 0
             /\ prob.sq_n <= prob.sq_d
             /\ down_sample.n = 0 => prob.sq_n = prob.sq_d

(***************************************************************************)
(* Properties of NegSampler and of sequences of calls.                     *)
(***************************************************************************)
NegReturned == npc = "returned"

\* C14: NegSampler.sample(n, k) returns a matrix of n rows and k columns,
\* neg_count columns when k is 0 (not supplied); every entry is an entry of
\* the table; over a table that is not empty the call does not raise.
C14_NegMatrix ==
  /\ NegReturned =>
       /\ neg_result.rows = neg_n
       /\ neg_result.cols = (IF neg_k = 0 THEN neg_count ELSE neg_k)
       /\ Len(neg_result.keys) = neg_n
       /\ \A j \in 1..neg_n :
            /\ Len(neg_result.keys[j]) = neg_result.cols
            /\ \A i \in 1..neg_result.cols :
                 \E pos \in 0..(neg_table_size - 1) :
                    neg_result.keys[j][i] = neg_table[pos + 1]
  /\ npc = "error" => neg_table_size = 0

\* sample(2) with neg_count 2 at construction: the same entry twice in one
\* row, two different ones in the other
C14_Witness ==
  /\ NegReturned
  /\ neg_k = 0
  /\ neg_count = 2
  /\ neg_table = <<0, 0, 1>>
  /\ neg_result.keys = <<<<1, 1>>, <<0, 1>>>>

InnerNodes == {n \in DOMAIN nodes : n >= VocabSize}

\* the root: the object the last merge step made
RootNode == 2 * VocabSize - 2

\* the inner node that has n as its left or right child
ParentOf(n) ==
  CHOOSE p \in InnerNodes : nodes[p].left = n \/ nodes[p].right = n

RECURSIVE PathTo(_)
\* the path from the root to node n: for every inner node above n, from the
\* root down, its merge step number and -1 when the path goes on to its
\* left child, +1 when it goes on to its right child
PathTo(n) ==
  IF n = RootNode THEN <<>>
  ELSE LET p == ParentOf(n)
       IN Append(PathTo(p),
                 <<p - VocabSize, IF nodes[p].left = n THEN -1 ELSE 1>>)

\* C21: for every vocabulary index k with code length L, the positions
\* j < L of row k hold, from the root down, the merge step number of each
\* inner node on the path to leaf k and the sign -1 where the path goes to
\* that node's left child (the first one popped, whose count is not the
\* larger one) and +1 where it goes to the right child; the positions j >= L
\* hold MAX_HSM_KEY + 1 and the sign 0.
C21_RowsArePaths ==
  HuffDone =>
     /\ \A p \in InnerNodes :
          /\ nodes[nodes[p].left].count <= nodes[nodes[p].right].count
          /\ nodes[p].left # nodes[p].right
     /\ \A k \in 0..(VocabSize - 1) :
          LET path == PathTo(k)
              L == Len(path)
          IN /\ L >= 1
             /\ L <= MatrixWidth
             /\ \A j \in 1..MatrixWidth :
                  IF j <= L
                    THEN /\ hsm_tree.keys_to_code_keys[k][j] = path[j][1]
                         /\ hsm_tree.keys_to_code_signs[k][j] = path[j][2]
                    ELSE /\ hsm_tree.keys_to_code_keys[k][j] = MAX_HSM_KEY + 1
                         /\ hsm_tree.keys_to_code_signs[k][j] = 0

\* four words: one is the right child of the root and its row is padded
\* twice, another one lies three steps down, right of the root's left child
C21_Witness ==
  /\ HuffDone
  /\ VocabSize = 4
  /\ \E k \in 0..3 :
        /\ hsm_tree.keys_to_code_keys[k] = <<2, MAX_HSM_KEY + 1, MAX_HSM_KEY + 1>>
        /\ hsm_tree.keys_to_code_signs[k] = <<1, 0, 0>>
  /\ \E k \in 0..3 :
        /\ hsm_tree.keys_to_code_keys[k] = <<2, 1, 0>>
        /\ hsm_tree.keys_to_code_signs[k] = <<-1, 1, -1>>

\* C22: the build checks the sentinel against the vocabulary size: it
\* returns no matrix in which a key of a code (a position j < L of a row) is
\* MAX_HSM_KEY + 1 or larger.
C22_KeysBelowSentinel ==
  HuffDone =>
     \A k \in DOMAIN key_dict :
        \A j \in 1..Len(key_dict[k].v) :
           hsm_tree.keys_to_code_keys[k][j] < max_hsm_key + 1

\* the keys of the codes in the matrix: the positions j < L of every row
RealKeys ==
  UNION {{hsm_tree.keys_to_code_keys[k][j] : j \in 1..Len(PathTo(k))} :
           k \in 0..(VocabSize - 1)}

\* C23: for a vocabulary of V >= 2 words, max_code_key is the largest key
\* of a code in the matrix (padding aside), and it is V - 2: the key of the
\* root, which is the first key of every row.
C23_MaxCodeKeyIsRoot ==
  (HuffDone /\ VocabSize >= 2) =>
     /\ hsm_tree.max_code_key \in RealKeys
     /\ \A x \in RealKeys : x <= hsm_tree.max_code_key
     /\ hsm_tree.max_code_key = VocabSize - 2
     /\ RootNode - VocabSize = VocabSize - 2
     /\ \A k \in 0..(VocabSize - 1) :
          hsm_tree.keys_to_code_keys[k][1] = VocabSize - 2

\* four words in a balanced tree: the keys 0, 1 and the root's 2
C23_Witness ==
  /\ HuffDone
  /\ VocabSize = 4
  /\ MatrixWidth = 2
  /\ RealKeys = {0, 1, 2}
  /\ hsm_tree.max_code_key = 2

(***************************************************************************)
(* Properties of fast_pair_sample and of the groups of the samplers.       *)
(***************************************************************************)
Abs(x) == IF x < 0 THEN -x ELSE x

\* the redraw loop of lines 322-324 has drawn a context position
PairDrawn == spc = "pair_redraw" /\ c_idx # a_idx

\* C24: for every pair fast_pair_sample draws (max_window >= 1), the radius
\* is in [1, max_window], the window is [anchor - radius, anchor + radius]
\* clipped to [0, phrase_len - 1], and the context position lies in it at a
\* distance of at least 1 and at most the radius from the anchor; the pair
\* stored is this anchor and this context position.
C24_ContextInWindow ==
  /\ [](spc = "pair_redraw" =>
          LET phrase_len == Len(CurPhrase)
          IN /\ red_win >= 1 /\ red_win <= max_window
             /\ a_idx >= 0 /\ a_idx <= phrase_len - 1
             /\ c_min = (IF a_idx - red_win < 0 THEN 0 ELSE a_idx - red_win)
             /\ c_min + c_span - 1 = Min(phrase_len - 1, a_idx + red_win)
             /\ c_idx >= c_min /\ c_idx <= c_min + c_span - 1
             /\ PairDrawn =>
                  /\ Abs(c_idx - a_idx) >= 1
                  /\ Abs(c_idx - a_idx) <= red_win
                  /\ c_idx >= 0 /\ c_idx <= phrase_len - 1)
  /\ [][(anc_keys # <<>> /\ spc' # "idle" /\ positions' # positions) =>
          /\ PairDrawn
          /\ positions' = [positions EXCEPT ![gi + r + 1] = <<a_idx, c_idx>>]
       ]_vars

\* anchor 0 of [w0..w4] with the radius 2: the window is clipped to [0, 2]
\* and the context is drawn at the full distance 2
C24_Witness ==
  /\ PairDrawn
  /\ phrase_list = <<P5>>
  /\ max_window = 2
  /\ red_win = 2
  /\ a_idx = 0
  /\ c_min = 0
  /\ c_span = 3
  /\ c_idx = 2

\* the largest divisor of n among 1..5
LargestDivisor(n) ==
  CHOOSE d \in 1..5 : n % d = 0 /\ \A e \in 1..5 : n % e = 0 => e <= d

\* between two groups (or after the last one)
BetweenGroups ==
  spc \in {"pairs_loop", "ngrams_loop", "pairs_returned", "ngrams_returned"}

\* the number of slots filled so far, and of slots whose group has its phrase
SlotsFilled == IF BetweenGroups THEN gi ELSE gi + r
SlotsStarted == IF BetweenGroups THEN gi ELSE gi + repeats

\* C25: the group size g is the largest divisor of sample_count in 1..5,
\* at least 1; the slots are filled in sample_count / g groups of g
\* consecutive slots, in order, each slot once; every group takes one draw
\* for its phrase, which all its slots share.
C25_GroupsFillSlots ==
  /\ [](/\ \A n \in 1..MaxGroupCount :
             GroupSize(n) = LargestDivisor(n) /\ GroupSize(n) >= 1
        /\ (spc \in InCall \/ PairsReturned \/ NgramsReturned) =>
             /\ sample_count >= 1
             /\ repeats = LargestDivisor(sample_count)
             /\ gi % repeats = 0
             /\ SlotsFilled <= sample_count
             /\ SlotsStarted <= sample_count
             /\ \A j \in 1..sample_count :
                  (positions[j] # <<>>) <=> (j <= SlotsFilled)
             /\ \A j \in 1..SlotsStarted :
                  /\ phrase_keys[j] =
                        phrase_keys[((j - 1) \div repeats) * repeats + 1]
                  /\ phrase_keys[j] \in Range(phrase_table)
        /\ (PairsReturned \/ NgramsReturned) =>
             /\ SlotsFilled = sample_count
             /\ gi = (sample_count \div repeats) * repeats
        /\ PairsReturned =>
             \A j \in 1..sample_count :
                /\ anc_keys[j] \in Range(PhraseOf(j))
                /\ pos_keys[j] \in Range(PhraseOf(j)))
  /\ [][/\ (spc # "idle" /\ spc' # "idle" /\ positions' # positions) =>
             /\ positions[gi + r + 1] = <<>>
             /\ positions'[gi + r + 1] # <<>>
             /\ \A j \in 1..sample_count :
                  j # gi + r + 1 => positions'[j] = positions[j]
        /\ (spc # "idle" /\ spc' \notin {"idle", "error"}) =>
             IF spc \in {"pairs_loop", "ngrams_loop"} /\ gi < sample_count
               THEN /\ ri' = ri + 1
                    /\ \E v \in Range(phrase_table) :
                         phrase_keys' = SliceFill(phrase_keys, gi, repeats, v)
               ELSE phrase_keys' = phrase_keys
       ]_vars

\* sample_pairs(6): two groups of three slots, the first from the second
\* phrase, the second from the first phrase
C25_Witness ==
  /\ PairsReturned
  /\ sample_count = 6
  /\ repeats = 3
  /\ phrase_keys = <<1, 1, 1, 0, 0, 0>>
  /\ anc_keys = <<3, 4, 3, 1, 2, 1>>
  /\ pos_keys = <<4, 3, 4, 2, 1, 2>>

\* a call of sample_pairs, running or returned
InPairs == {"pairs_loop", "pair_anchor", "pair_redraw", "pairs_returned"}

\* C26: when sample_pairs selects a phrase of length 1, the clipped window
\* holds the anchor position only (c_span = 1), every redraw yields the
\* anchor again, so the loop of lines 322-324 is never left through its
\* test, and no pair is ever stored for a slot of that phrase.
C26_OneKeyPhraseNeverPairs ==
  /\ (spc = "pair_redraw" /\ Len(CurPhrase) = 1) =>
        /\ a_idx = 0
        /\ c_min = 0
        /\ c_span = 1
        /\ c_idx = a_idx
        /\ ~PairDrawn
  /\ spc \in InPairs =>
        \A j \in 1..sample_count :
           positions[j] # <<>> => Len(PhraseOf(j)) # 1

\* the one-key phrase is selected and the redraws have used up the pool
C26_Witness ==
  /\ spc = "pair_redraw"
  /\ CurPhrase = P1
  /\ c_idx = a_idx
  /\ ri >= PoolLen

\* the window of lines 314-320 for an anchor a and a radius rw in a phrase
\* of phrase_len keys: its first position and its size
WindowMin(a, rw) == ClipMin(a - rw)
WindowSpan(phrase_len, a, rw) ==
  ClipMax(a + rw, phrase_len) - ClipMin(a - rw) + 1

\* the loop of lines 322-324 is running over a phrase of two keys or more
Looping == spc = "pair_redraw" /\ Len(CurPhrase) >= 2 /\ c_idx = a_idx

PairReads ==
  CASE spc = "pairs_loop" /\ gi < sample_count -> 1
    [] spc = "pair_anchor" -> 2
    [] spc = "pair_redraw" /\ c_idx = a_idx -> 1
    [] OTHER -> 0

\* C28: the pool of 10 x sample_count entries is enough for sample_pairs
\* over phrases of two keys or more, whatever the pool holds: every read of
\* the call is at a cursor below the pool's length.
C28_PoolSuffices ==
  ((\A p \in 1..Len(phrase_list) : Len(phrase_list[p]) >= 2)
   /\ PairReads > 0) =>
     ri + PairReads <= PoolLen

(***************************************************************************)
(* The phrase table and empty phrases.                                     *)
(***************************************************************************)

\* C29: for a phrase list with at least one non-empty phrase, every entry
\* of the table PhraseSampler._make_table returns is the index of a phrase
\* of positive length, so that no phrase of length 0 is ever selected.
C29_NoEmptyPhraseInTable ==
  (/\ TableDone
   /\ t_kind = "phrase"
   /\ \E p \in 1..Len(t_items) : t_items[p] > 0) =>
     \A q \in 1..Len(table) : t_items[table[q] + 1] > 0

\* a call of sample_ngrams, running, returned or failed
InNgrams == spc \in {"ngrams_loop", "seq_sample", "ngrams_returned", "error"}
            /\ key_seqs # <<>>

\* C30: over phrases of length >= 2, sample_ngrams(sample_count) reads one
\* pool entry per group for the phrase and one per sample for the stop
\* position: sample_count + sample_count / g reads in all, at most
\* 2 x sample_count, so the cursor never reaches the pool's length
\* 10 x sample_count and the call does not fail.
C30_NgramCursor ==
  (InNgrams /\ \A p \in 1..Len(phrase_list) : Len(phrase_list[p]) >= 2) =>
     /\ spc # "error"
     /\ spc = "ngrams_loop" => ri = (gi \div repeats) + gi
     /\ spc = "seq_sample" => ri = (gi \div repeats) + 1 + gi + r
     /\ NgramsReturned =>
          /\ ri = sample_count + (sample_count \div repeats)
          /\ sample_count % repeats = 0
     /\ ri <= 2 * sample_count
     /\ ri < PoolLen

\* sample_ngrams(7) takes 14 reads, sample_ngrams(6) would take 8
C30_Witness ==
  /\ NgramsReturned
  /\ sample_count = 7
  /\ repeats = 1
  /\ ri = 14
  /\ PoolLen = 70

=============================================================================
